---- MODULE Spec2Model ----
(***************************************************************************)
(* Model of the pipeline engine of readme_to_feishu: the condition         *)
(* evaluator (pipeline/conditions.py), edge selection and the traversal    *)
(* loop (pipeline/engine.py), the handlers (pipeline/handlers/) and the    *)
(* task runner (services/run_pipeline.py).                                 *)
(*                                                                         *)
(* Python str values are TLA+ strings; TLC evaluates Len, SubSeq and \o on *)
(* them, so slicing, strip, split and lower are computed character by      *)
(* character as Python computes them.                                      *)
(***************************************************************************)
EXTENDS Integers, Sequences, FiniteSets, TLC

(***************************************************************************)
(* Python values and str primitives                                        *)
(***************************************************************************)

\* Values of dynamically typed slots (Context values, Node.attrs values).
PyNone == [py |-> "none"]
PyStr(s) == [py |-> "str", v |-> s]
PyBool(b) == [py |-> "bool", v |-> b]
PyInt(n) == [py |-> "int", v |-> n]

Min(a, b) == IF a <= b THEN a ELSE b
Max(a, b) == IF a >= b THEN a ELSE b

\* s[i:j] for 0 <= i, 0 <= j (Python clamps both ends to the length).
Slice(s, i, j) ==
    LET hi == Min(j, Len(s))
    IN IF i >= hi THEN "" ELSE SubSeq(s, i + 1, hi)

\* s[i:]
SliceFrom(s, i) == Slice(s, i, Len(s))

\* The printable ASCII characters in code point order, 32 .. 126 (the slot of
\* code point 96, which a TLA+ string cannot hold, is left empty).
Ascii ==
    << " ", "!", "\"", "#", "$", "%", "&", "'", "(", ")", "*", "+", ",", "-",
       ".", "/", "0", "1", "2", "3", "4", "5", "6", "7", "8", "9", ":", ";",
       "<", "=", ">", "?", "@", "A", "B", "C", "D", "E", "F", "G", "H", "I",
       "J", "K", "L", "M", "N", "O", "P", "Q", "R", "S", "T", "U", "V", "W",
       "X", "Y", "Z", "[", "\\", "]", "^", "_", "", "a", "b", "c", "d", "e",
       "f", "g", "h", "i", "j", "k", "l", "m", "n", "o", "p", "q", "r", "s",
       "t", "u", "v", "w", "x", "y", "z", "{", "|", "}", "~" >>

\* ord(c) of a one-character str; tab and newline sit below the printable range.
CodePoint(c) ==
    IF c = "\t" THEN 9
    ELSE IF c = "\n" THEN 10
    ELSE 31 + (CHOOSE i \in DOMAIN Ascii : Ascii[i] = c)

\* a < b on str: lexicographic by code point, a proper prefix is smaller.
RECURSIVE StrLess(_, _)
StrLess(a, b) ==
    IF b = "" THEN FALSE
    ELSE IF a = "" THEN TRUE
    ELSE LET ca == CodePoint(Head(a))
             cb == CodePoint(Head(b))
         IN IF ca # cb THEN ca < cb ELSE StrLess(Tail(a), Tail(b))

\* The characters str.strip() removes.
Whitespace == {" ", "\t", "\n"}

RECURSIVE LStripChars(_, _)
LStripChars(s, chars) ==
    IF s # "" /\ Head(s) \in chars THEN LStripChars(Tail(s), chars) ELSE s

RECURSIVE RStripChars(_, _)
RStripChars(s, chars) ==
    IF s # "" /\ SubSeq(s, Len(s), Len(s)) \in chars
    THEN RStripChars(SubSeq(s, 1, Len(s) - 1), chars)
    ELSE s

\* s.strip(chars)
StripChars(s, chars) == RStripChars(LStripChars(s, chars), chars)

\* s.strip()
Strip(s) == StripChars(s, Whitespace)

\* c.lower() of one character.
LowerChar(c) ==
    LET cp == CodePoint(c)
    IN IF cp >= 65 /\ cp <= 90 THEN Ascii[cp + 32 - 31] ELSE c

\* s.lower()
RECURSIVE Lower(_)
Lower(s) == IF s = "" THEN "" ELSE LowerChar(Head(s)) \o Lower(Tail(s))

\* s.startswith(p)
StartsWith(s, p) == Slice(s, 0, Len(p)) = p

\* s.find(p): the least 0-based index where p occurs, -1 when it does not.
Find(s, p) ==
    LET hits == {i \in 0 .. (Len(s) - Len(p)) : Slice(s, i, i + Len(p)) = p}
    IN IF hits = {} THEN -1 ELSE CHOOSE i \in hits : \A j \in hits : i <= j

\* p in s
Contains(s, p) == Find(s, p) >= 0

\* s.split(sep, 1)
Split1(s, sep) ==
    LET i == Find(s, sep)
    IN IF i < 0 THEN <<s>> ELSE <<Slice(s, 0, i), SliceFrom(s, i + Len(sep))>>

\* s.split(sep)
RECURSIVE Split(_, _)
Split(s, sep) ==
    LET i == Find(s, sep)
    IN IF i < 0 THEN <<s>>
       ELSE <<Slice(s, 0, i)>> \o Split(SliceFrom(s, i + Len(sep)), sep)

\* str(n) for an int.
RECURSIVE IntToStr(_)
IntToStr(n) ==
    IF n < 0 THEN "-" \o IntToStr(-n)
    ELSE IF n < 10 THEN Ascii[n + 17]
    ELSE IntToStr(n \div 10) \o Ascii[(n % 10) + 17]

\* str(v)
ToStr(v) ==
    CASE v.py = "str" -> v.v
      [] v.py = "bool" -> IF v.v THEN "True" ELSE "False"
      [] v.py = "int" -> IntToStr(v.v)
      [] v.py = "none" -> "None"

\* bool(v)
Truthy(v) ==
    CASE v.py = "str" -> v.v # ""
      [] v.py = "bool" -> v.v
      [] v.py = "int" -> v.v # 0
      [] v.py = "none" -> FALSE

(***************************************************************************)
(* pipeline/context.py                                                     *)
(***************************************************************************)

\* Context._values is a function from the keys present to their values.
\* Context.get(key): None when the key is absent.
CtxGet(values, key) == IF key \in DOMAIN values THEN values[key] ELSE PyNone

\* Context.set(key, value)
CtxSet(values, key, value) ==
    [k \in DOMAIN values \cup {key} |-> IF k = key THEN value ELSE values[k]]

\* Context.get_string(key, default="")
CtxGetString(values, key) ==
    LET v == CtxGet(values, key) IN IF v = PyNone THEN "" ELSE ToStr(v)

\* Context.apply_updates(updates): dict.update, a falsy updates changes nothing.
apply_updates(values, updates) ==
    [k \in DOMAIN values \cup DOMAIN updates |->
        IF k \in DOMAIN updates THEN updates[k] ELSE values[k]]

(***************************************************************************)
(* pipeline/conditions.py                                                  *)
(***************************************************************************)

resolve_key(key0, outcome, context) ==
    LET key == Strip(key0)
    IN IF key = "outcome" THEN outcome.status
       ELSE IF key = "preferred_label" THEN outcome.preferred_label
       ELSE IF StartsWith(key, "context.")
       THEN LET k == Strip(SliceFrom(key, 9))
            IN IF CtxGet(context, k) # PyNone THEN ToStr(CtxGet(context, k))
               ELSE IF CtxGet(context, key) # PyNone
               THEN ToStr(CtxGet(context, key))
               ELSE ""
       ELSE IF CtxGet(context, key) # PyNone THEN ToStr(CtxGet(context, key))
       ELSE ""

evaluate_clause(clause0, outcome, context) ==
    LET clause == Strip(clause0)
    IN IF Contains(clause, "!=")
       THEN LET parts == Split1(clause, "!=")
                key == Strip(parts[1])
                val == StripChars(Strip(parts[2]), {"\""})
            IN resolve_key(key, outcome, context) # val
       ELSE IF Contains(clause, "=")
       THEN LET parts == Split1(clause, "=")
                key == Strip(parts[1])
                val == StripChars(Strip(parts[2]), {"\""})
            IN resolve_key(key, outcome, context) = val
       ELSE resolve_key(clause, outcome, context) # ""

evaluate_condition(condition, outcome, context) ==
    IF condition = "" \/ Strip(condition) = "" THEN TRUE
    ELSE LET IsClause(c) == Strip(c) # ""
             clauses == SelectSeq(Split(condition, "&&"), IsClause)
         IN \A i \in DOMAIN clauses :
                evaluate_clause(Strip(clauses[i]), outcome, context)

(***************************************************************************)
(* pipeline/outcome.py, pipeline/graph.py                                  *)
(***************************************************************************)

\* StageStatus values.
SUCCESS == "success"
FAIL == "fail"
PARTIAL_SUCCESS == "partial_success"
RETRY == "retry"
SKIPPED == "skipped"

\* Outcome(status, ...) with the dataclass defaults. suggested_next_ids and
\* context_updates default to None, which the code reads only through
\* truthiness: None and the empty list / dict are both <<>>.
Outcome(status) ==
    [status |-> status, preferred_label |-> "", suggested_next_ids |-> <<>>,
     context_updates |-> <<>>, notes |-> "", failure_reason |-> ""]

\* Node(id, ...) with the dataclass defaults.
Node(id, shape) ==
    [id |-> id, label |-> "", shape |-> shape, type |-> "", prompt |-> "",
     attrs |-> <<>>]

\* Edge(from_node, to_node, ...)
Edge(from_node, to_node, label, condition, weight) ==
    [from_node |-> from_node, to_node |-> to_node, label |-> label,
     condition |-> condition, weight |-> weight]

\* Node.display_name
display_name(node) == IF node.label # "" THEN node.label ELSE node.id

\* Graph.nodes is an insertion-ordered dict: a sequence of Nodes with distinct
\* ids. Graph.get_node: None when no node has the id.
get_node(graph, node_id) ==
    LET hits == {i \in DOMAIN graph.nodes : graph.nodes[i].id = node_id}
    IN IF hits = {} THEN PyNone ELSE graph.nodes[CHOOSE i \in hits : TRUE]

\* Graph.outgoing_edges
outgoing_edges(graph, node_id) ==
    LET From(e) == e.from_node = node_id IN SelectSeq(graph.edges, From)

\* find_start_node that prefers the ids start and Start to the shape.
find_start_nodeById(graph) ==
    IF \E i \in DOMAIN graph.nodes : graph.nodes[i].id = "start" THEN "start"
    ELSE IF \E i \in DOMAIN graph.nodes : graph.nodes[i].id = "Start" THEN "Start"
    ELSE IF \E i \in DOMAIN graph.nodes : graph.nodes[i].shape = "Mdiamond"
    THEN graph.nodes[CHOOSE i \in DOMAIN graph.nodes :
                        graph.nodes[i].shape = "Mdiamond"].id
    ELSE ""

\* Graph.find_start_node: the first Mdiamond node in dict order, else the id
\* start, else Start, else None ("" here: the caller tests `not start_id`).
find_start_node(graph) ==
    LET md == {i \in DOMAIN graph.nodes : graph.nodes[i].shape = "Mdiamond"}
    IN IF md # {}
       THEN graph.nodes[CHOOSE i \in md : \A j \in md : i <= j].id
       ELSE IF get_node(graph, "start") # PyNone THEN "start"
       ELSE IF get_node(graph, "Start") # PyNone THEN "Start"
       ELSE ""

\* is_terminal that recognises no node as terminal.
is_terminalNever(graph, node_id) == FALSE

\* is_terminal that goes by the shape alone.
is_terminalShapeOnly(graph, node_id) ==
    LET node == get_node(graph, node_id)
    IN IF node = PyNone THEN FALSE ELSE node.shape = "Msquare"

\* Graph.is_terminal
is_terminal(graph, node_id) ==
    LET node == get_node(graph, node_id)
    IN IF node = PyNone THEN FALSE
       ELSE IF node.shape = "Msquare" THEN TRUE
       ELSE Lower(node_id) \in {"exit", "end"}

(***************************************************************************)
(* pipeline/engine.py: edge selection                                      *)
(***************************************************************************)

\* _normalize_label that trims and lowercases and strips no prefix.
normalize_labelTrimOnly(label) == Lower(Strip(label))

\* _normalize_label
normalize_label(label) ==
    LET s0 == Lower(Strip(label))
        s1 == IF StartsWith(s0, "[") /\ Contains(Slice(s0, 0, 4), "]")
              THEN Strip(Split1(s0, "]")[2])
              ELSE s0
        s2 == IF Len(s1) >= 2 /\ Slice(s1, 1, 2) = ")"
              THEN Strip(SliceFrom(s1, 2))
              ELSE s1
        s3 == IF Len(s2) >= 3 /\ Slice(s2, 1, 3) = " -"
              THEN Strip(SliceFrom(s2, 3))
              ELSE s2
    IN Strip(s3)

\* KeyLess on the destination alone, the weight left out of the key.
KeyLessByName(a, b) ==
    StrLess(a.to_node, b.to_node)

\* The sort key (-e.weight, e.to_node): whether a's key is smaller than b's.
KeyLess(a, b) ==
    \/ a.weight > b.weight
    \/ a.weight = b.weight /\ StrLess(a.to_node, b.to_node)

\* One step of a stable insertion: e goes after every element whose key is
\* not greater than its own.
RECURSIVE InsertByKey(_, _)
InsertByKey(sorted, e) ==
    IF sorted = <<>> THEN <<e>>
    ELSE IF KeyLess(e, Head(sorted)) THEN <<e>> \o sorted
    ELSE <<Head(sorted)>> \o InsertByKey(Tail(sorted), e)

\* sorted(edges, key=lambda e: (-e.weight, e.to_node)); sorted is stable.
RECURSIVE SortedByKey(_)
SortedByKey(edges) ==
    IF edges = <<>> THEN <<>>
    ELSE InsertByKey(SortedByKey(SubSeq(edges, 1, Len(edges) - 1)),
                     edges[Len(edges)])

\* [e for e in edges if e.condition and evaluate_condition(e.condition, ...)]
ConditionMatched(edges, outcome, context) ==
    LET Match(e) == e.condition # ""
                    /\ evaluate_condition(e.condition, outcome, context)
    IN SelectSeq(edges, Match)

\* Step 2 of select_edge: the first edge whose normalized label is pl.
FirstByLabel(edges, pl) ==
    LET Match(e) == normalize_label(e.label) = pl
    IN SelectSeq(edges, Match)

\* Step 3 of select_edge: for sid in suggested_next_ids: for e in edges.
RECURSIVE FirstBySuggested(_, _)
FirstBySuggested(edges, sids) ==
    IF sids = <<>> THEN <<>>
    ELSE LET To(e) == e.to_node = Head(sids)
             hit == SelectSeq(edges, To)
         IN IF hit # <<>> THEN hit ELSE FirstBySuggested(edges, Tail(sids))

\* SelectAmong with the preferred-label step taken before the condition step.
SelectAmongLabelFirst(edges, outcome, context) ==
    LET condition_matched == ConditionMatched(edges, outcome, context)
        by_label == IF outcome.preferred_label # ""
                    THEN FirstByLabel(edges,
                                      normalize_label(outcome.preferred_label))
                    ELSE <<>>
        by_sid == FirstBySuggested(edges, outcome.suggested_next_ids)
        NoCond(e) == e.condition = ""
        unconditional == SelectSeq(edges, NoCond)
    IN IF edges = <<>> THEN PyNone
       ELSE IF by_label # <<>> THEN by_label[1]
       ELSE IF condition_matched # <<>> THEN SortedByKey(condition_matched)[1]
       ELSE IF by_sid # <<>> THEN by_sid[1]
       ELSE IF unconditional # <<>> THEN SortedByKey(unconditional)[1]
       ELSE SortedByKey(edges)[1]

\* SelectAmong without the fallback to any edge: None when every edge is
\* guarded and no guard matches.
SelectAmongNoFallback(edges, outcome, context) ==
    LET condition_matched == ConditionMatched(edges, outcome, context)
        by_label == IF outcome.preferred_label # ""
                    THEN FirstByLabel(edges,
                                      normalize_label(outcome.preferred_label))
                    ELSE <<>>
        by_sid == FirstBySuggested(edges, outcome.suggested_next_ids)
        NoCond(e) == e.condition = ""
        unconditional == SelectSeq(edges, NoCond)
    IN IF edges = <<>> THEN PyNone
       ELSE IF condition_matched # <<>> THEN SortedByKey(condition_matched)[1]
       ELSE IF by_label # <<>> THEN by_label[1]
       ELSE IF by_sid # <<>> THEN by_sid[1]
       ELSE IF unconditional # <<>> THEN SortedByKey(unconditional)[1]
       ELSE PyNone

\* select_edge(node, outcome, context, graph) on edges = the node's outgoing
\* edges; PyNone when there are none.
SelectAmong(edges, outcome, context) ==
    LET condition_matched == ConditionMatched(edges, outcome, context)
        by_label == IF outcome.preferred_label # ""
                    THEN FirstByLabel(edges,
                                      normalize_label(outcome.preferred_label))
                    ELSE <<>>
        by_sid == FirstBySuggested(edges, outcome.suggested_next_ids)
        NoCond(e) == e.condition = ""
        unconditional == SelectSeq(edges, NoCond)
    IN IF edges = <<>> THEN PyNone
       ELSE IF condition_matched # <<>> THEN SortedByKey(condition_matched)[1]
       ELSE IF by_label # <<>> THEN by_label[1]
       ELSE IF by_sid # <<>> THEN by_sid[1]
       ELSE IF unconditional # <<>> THEN SortedByKey(unconditional)[1]
       ELSE SortedByKey(edges)[1]

\* select_edge that returns an edge from the node to itself.
select_edgeStay(node, outcome, context, graph) ==
    Edge(node.id, node.id, "", "", 0)

select_edge(node, outcome, context, graph) ==
    SelectAmong(outgoing_edges(graph, node.id), outcome, context)

(***************************************************************************)
(* pipeline/handlers/ and the handler registry of PipelineEngine           *)
(***************************************************************************)

SHAPE_TO_TYPE ==
    [Mdiamond |-> "start", Msquare |-> "exit", box |-> "codergen",
     parallelogram |-> "tool", diamond |-> "conditional",
     hexagon |-> "wait.human", component |-> "parallel",
     tripleoctagon |-> "parallel.fan_in", house |-> "stack.manager_loop"]

\* The keys of PipelineEngine._handlers.
RegisteredTypes == {"start", "exit", "codergen", "tool", "conditional"}

\* PipelineEngine._resolve_handler: the registry key of the handler used.
resolve_handler(node) ==
    IF node.type # "" /\ node.type \in RegisteredTypes THEN node.type
    ELSE LET handler_type == IF node.shape \in DOMAIN SHAPE_TO_TYPE
                             THEN SHAPE_TO_TYPE[node.shape]
                             ELSE "codergen"
         IN IF handler_type \in RegisteredTypes THEN handler_type
            ELSE "codergen"

\* dict.get(key) on Node.attrs.
AttrGet(node, key) ==
    IF key \in DOMAIN node.attrs THEN node.attrs[key] ELSE PyNone

\* What a codergen backend may return as text.
BackendTexts == {"{\"keep_sections\": [\"all\"]}"}

\* What a codergen backend or a tool executor may raise (str(e)).
BackendErrors == {"backend down"}

\* Outcomes a codergen backend may return as an Outcome object, and a tool
\* executor as its result.
BackendOutcomes ==
    { Outcome(SUCCESS),
      [Outcome(SUCCESS) EXCEPT !.preferred_label = "yes"],
      [Outcome(SUCCESS) EXCEPT !.suggested_next_ids = <<"zz", "b">>],
      [Outcome(SUCCESS) EXCEPT !.context_updates = ("k" :> PyStr("v1"))],
      [Outcome(SUCCESS) EXCEPT
          !.context_updates = ("k" :> PyStr("v2") @@ "outcome" :> PyStr("custom")),
          !.preferred_label = "Y) Yes"],
      [Outcome(PARTIAL_SUCCESS) EXCEPT
          !.context_updates = ("preferred_label" :> PyStr("kept"))],
      [Outcome(FAIL) EXCEPT !.failure_reason = "boom"],
      [Outcome(FAIL) EXCEPT !.preferred_label = "yes",
                            !.suggested_next_ids = <<"b">>],
      Outcome(RETRY),
      [Outcome(SKIPPED) EXCEPT !.failure_reason = "skipped it"] }

\* FailOutcome with the status RETRY.
FailOutcomeRetry(reason) == [Outcome(RETRY) EXCEPT !.failure_reason = reason]

\* Outcome(status=FAIL, failure_reason=str(e))
FailOutcome(reason) == [Outcome(FAIL) EXCEPT !.failure_reason = reason]

\* CodergenHandler.execute past the backend call, response_text in hand.
CodergenText(node, response_text) ==
    [Outcome(SUCCESS) EXCEPT
        !.notes = "Stage completed: " \o node.id,
        !.context_updates = ("last_stage" :> PyStr(node.id)
                             @@ "last_response" :> PyStr(Slice(response_text, 0, 200)))]

\* CodergenHandler.execute: the Outcomes it may return. has_backend is whether
\* the engine was built with a backend; a backend returns a str, returns an
\* Outcome, or raises.
CodergenExecute(node, has_backend) ==
    IF has_backend
    THEN {CodergenText(node, r) : r \in BackendTexts}
         \cup BackendOutcomes
         \cup {FailOutcome(e) : e \in BackendErrors}
    ELSE {CodergenText(node, "[Simulated] Response for stage: " \o node.id)}

\* The names of the registered tool executors (create_engine).
ToolExecutors ==
    {"fetch_input", "parse_markdown", "convert_to_blocks", "publish_to_feishu"}

\* ToolHandler.execute: the Outcomes it may return.
ToolExecute(node, executors) ==
    LET tool == AttrGet(node, "tool")
        tool_command == AttrGet(node, "tool_command")
        tool_name == IF Truthy(tool) THEN tool ELSE tool_command
        command == IF "tool_command" \in DOMAIN node.attrs
                   THEN tool_command ELSE PyStr("")
    IN IF tool_name.py = "str" /\ tool_name.v \in executors
       THEN BackendOutcomes \cup {FailOutcome(e) : e \in BackendErrors}
       ELSE IF ~Truthy(command)
       THEN {FailOutcome("No tool_command or registered tool specified")}
       ELSE { [Outcome(SUCCESS) EXCEPT
                  !.context_updates = ("tool.output" :> PyStr("out")),
                  !.notes = "Tool completed: " \o ToStr(command)],
              [Outcome(FAIL) EXCEPT
                  !.context_updates = ("tool.output" :> PyStr("out")),
                  !.notes = "Tool completed: " \o ToStr(command),
                  !.failure_reason = "out"],
              [Outcome(FAIL) EXCEPT
                  !.context_updates = ("tool.output" :> PyStr("")),
                  !.notes = "Tool completed: " \o ToStr(command),
                  !.failure_reason = "exit code 1"],
              FailOutcome("Tool timed out") }

\* handler.execute(node, ctx, graph, logs_root) for the handler resolved.
HandlerExecute(node, has_backend, executors) ==
    LET h == resolve_handler(node)
    IN CASE h = "start" -> {[Outcome(SUCCESS) EXCEPT !.notes = "Start: " \o node.id]}
         [] h = "exit" -> {[Outcome(SUCCESS) EXCEPT !.notes = "Exit: " \o node.id]}
         [] h = "conditional" ->
                {[Outcome(SUCCESS) EXCEPT !.notes = "Conditional: " \o node.id]}
         [] h = "tool" -> ToolExecute(node, executors)
         [] h = "codergen" -> CodergenExecute(node, has_backend)

(***************************************************************************)
(* Graphs the engine is run on                                             *)
(***************************************************************************)

NodeWith(id, shape, attrs) == [Node(id, shape) EXCEPT !.attrs = attrs]

Graph(nodes, edges) == [goal |-> "", label |-> "", nodes |-> nodes, edges |-> edges]

\* start -> a -> end
GStraight ==
    Graph(<<Node("start", "Mdiamond"), Node("a", "box"), Node("end", "Msquare")>>,
          <<Edge("start", "a", "", "", 0), Edge("a", "end", "", "", 0)>>)

\* start -> decide; decide -> ok when the outcome is success, else -> bad
GGuarded ==
    Graph(<<Node("start", "Mdiamond"), Node("decide", "box"),
            Node("ok", "diamond"), Node("bad", "diamond")>>,
          <<Edge("start", "decide", "", "", 0),
            Edge("decide", "ok", "", "outcome=success", 0),
            Edge("decide", "bad", "", "", 0)>>)

\* decide has labelled and weighted unguarded edges only
GPreferred ==
    Graph(<<Node("Start", "box"), Node("decide", "box"),
            Node("yes_branch", "diamond"), Node("no_branch", "diamond"),
            Node("a", "diamond"), Node("b", "diamond")>>,
          <<Edge("Start", "decide", "", "", 0),
            Edge("decide", "no_branch", "No", "", 0),
            Edge("decide", "yes_branch", "[Y] Yes", "", 0),
            Edge("decide", "b", "", "", 1),
            Edge("decide", "a", "", "", 1)>>)

\* decide has guarded edges for fail, retry and a context key beside the others
GRoute ==
    Graph(<<Node("start", "Mdiamond"), Node("decide", "box"),
            Node("yes_branch", "diamond"), Node("b", "diamond"),
            Node("fixa", "diamond"), Node("fixb", "diamond"),
            Node("fixc", "diamond"), Node("End", "box")>>,
          <<Edge("start", "decide", "", "", 0),
            Edge("decide", "yes_branch", "Y - Yes", "", 0),
            Edge("decide", "b", "", "", 3),
            Edge("decide", "fixa", "yes", "outcome=fail", 1),
            Edge("decide", "fixc", "", "outcome=fail", 2),
            Edge("decide", "fixb", "", "outcome = \"fail\" && outcome!=retry", 2),
            Edge("decide", "End", "", "k=v1", 0),
            Edge("decide", "fixa", "", "outcome=retry", 0),
            Edge("fixa", "End", "", "outcome=fail", 0)>>)

\* critical carries a goal gate and may be retried; other is never visited
GGoalGate ==
    Graph(<<Node("start", "Mdiamond"),
            NodeWith("critical", "box", ("goal_gate" :> PyBool(TRUE))),
            NodeWith("other", "box", ("goal_gate" :> PyBool(TRUE))),
            NodeWith("plain", "box", ("goal_gate" :> PyBool(FALSE))),
            Node("end", "Msquare")>>,
          <<Edge("start", "critical", "", "", 0),
            Edge("critical", "end", "", "outcome=fail", 0),
            Edge("critical", "critical", "", "outcome=retry", 0),
            Edge("critical", "plain", "", "outcome=skipped", 0),
            Edge("critical", "end", "", "", 0),
            Edge("plain", "end", "", "outcome=fail", 0),
            Edge("plain", "end", "", "", 0)>>)

\* tool stages under the ids the task runner reports progress for
GTask ==
    Graph(<<Node("start", "Mdiamond"),
            NodeWith("parse", "parallelogram", ("tool" :> PyStr("parse_markdown"))),
            Node("understand", "box"),
            NodeWith("publish", "parallelogram",
                     ("tool" :> PyStr("publish_to_feishu") @@ "goal_gate" :> PyStr("yes"))),
            Node("exit", "Msquare")>>,
          <<Edge("start", "parse", "", "", 0),
            Edge("parse", "understand", "", "outcome=success", 0),
            Edge("understand", "publish", "", "", 0),
            Edge("publish", "exit", "", "outcome=fail", 0),
            Edge("publish", "exit", "", "", 0)>>)

\* tool stages run as external commands, or with nothing configured
GTool ==
    Graph(<<Node("start", "Mdiamond"),
            NodeWith("run", "parallelogram", ("tool_command" :> PyStr("make"))),
            [Node("bare", "box") EXCEPT !.type = "tool"],
            [Node("wait", "hexagon") EXCEPT !.type = "no.such.type"],
            Node("end", "Msquare")>>,
          <<Edge("start", "run", "", "", 0),
            Edge("run", "bare", "", "outcome=fail", 0),
            Edge("run", "wait", "", "", 0),
            Edge("wait", "end", "", "", 0),
            Edge("bare", "end", "", "outcome=fail", 0)>>)

\* no entry node
GNoStart ==
    Graph(<<Node("a", "box"), Node("end", "Msquare")>>,
          <<Edge("a", "end", "", "", 0)>>)

\* an edge to a node that is not declared
GMissing ==
    Graph(<<Node("start", "Mdiamond"), Node("end", "Msquare")>>,
          <<Edge("start", "ghost", "", "", 1), Edge("start", "end", "", "", 0)>>)

\* the entry node is itself terminal
GTerminalStart ==
    Graph(<<Node("exit", "Mdiamond"), Node("a", "box")>>,
          <<Edge("exit", "a", "", "", 0)>>)

\* candidates for the entry node in several declaration orders, each with an
\* edge to the terminal node
EntryGraphs ==
    {Graph(ns \o <<Node("end", "Msquare")>>,
           [i \in DOMAIN ns |-> Edge(ns[i].id, "end", "", "", 0)]) :
        ns \in {<<Node("start", "diamond"), Node("Start", "diamond"),
                  Node("m1", "Mdiamond"), Node("m2", "Mdiamond")>>,
                <<Node("m2", "Mdiamond"), Node("start", "diamond"),
                  Node("m1", "Mdiamond")>>,
                <<Node("Start", "diamond"), Node("start", "diamond")>>,
                <<Node("a", "diamond"), Node("Start", "diamond")>>}}

\* work has no outgoing edges, is not terminal and carries a goal gate
GDeadEnd ==
    Graph(<<Node("start", "Mdiamond"),
            NodeWith("work", "box", ("goal_gate" :> PyBool(TRUE)))>>,
          <<Edge("start", "work", "", "", 0)>>)

Graphs ==
    {GStraight, GGuarded, GPreferred, GRoute, GGoalGate, GTask, GTool,
     GNoStart, GMissing, GTerminalStart, GDeadEnd} \cup EntryGraphs

(***************************************************************************)
(* State: one task, started by api_convert and run by run_task on a worker *)
(***************************************************************************)

\* The most handler executions of one run that are explored.
MaxSteps == 4

TaskId == "t1"

VARIABLES
    graph,          \* the Graph create_engine loaded
    has_backend,    \* whether the codergen handler has a backend
    pc,             \* where the worker is in run_task / PipelineEngine.run
    ctx,            \* Context._values of the run
    current_id,     \* PipelineEngine.run: current_id
    node_outcomes,  \* PipelineEngine.run: node_outcomes, in insertion order
    last_outcome,   \* PipelineEngine.run: last_outcome
    outcome,        \* PipelineEngine.run: outcome of the stage just executed
    next_edge,      \* PipelineEngine.run: next_edge
    events,         \* run_task: the local list `events`
    task_store,     \* run_pipeline._task_store
    ev,             \* on_event: its arguments (kind, data)
    retpc,          \* where the engine continues when on_event returns
    exc,            \* the message of the exception the engine raised
    returned,       \* the Outcome engine.run returned
    emitted,        \* history: the calls of the engine's event callback
    executed,       \* history: the handler executions of the run
    sel,            \* edge selection applied to drawn inputs (SpecSel)
    obs,            \* api_task_stream: the observer's event_generator (SpecObs)
    call            \* a function applied to drawn inputs (SpecPure)

vars ==
    <<graph, has_backend, pc, ctx, current_id, node_outcomes, last_outcome,
      outcome, next_edge, events, task_store, ev, retpc, exc, returned,
      emitted, executed, sel, obs, call>>

engineVars ==
    <<graph, has_backend, pc, ctx, current_id, node_outcomes, last_outcome,
      outcome, next_edge, events, task_store, ev, retpc, exc, returned,
      emitted, executed>>

\* run_task: step_names and step_progress.
step_names ==
    [fetch_input |-> "parsing", parse |-> "parsing", understand |-> "understanding",
     convert |-> "converting", publish |-> "publishing"]

step_progress ==
    [parsing |-> 25, understanding |-> 50, converting |-> 75, publishing |-> 100]

\* A task's "events" slot refers to a list: the local list of run_task (which
\* run_task goes on appending to) or a list of its own.
OwnList(items) == [ref |-> "own", items |-> items]
LocalList == [ref |-> "local"]

\* The list a task's "events" slot refers to, as get_task(task_id)["events"]
\* reads it now.
TaskEvents(store, local, task_id) ==
    IF store[task_id].events.ref = "local" THEN local
    ELSE store[task_id].events.items

\* api_convert: the task is registered as running and run_task is submitted.
Init ==
    /\ graph \in Graphs
    /\ has_backend \in BOOLEAN
    /\ pc = "submitted"
    /\ ctx = <<>>
    /\ current_id = ""
    /\ node_outcomes = <<>>
    /\ last_outcome = PyNone
    /\ outcome = PyNone
    /\ next_edge = PyNone
    /\ events = <<>>
    /\ task_store = (TaskId :> [status |-> "running", events |-> OwnList(<<>>),
                                result |-> PyNone])
    /\ ev = PyNone
    /\ retpc = ""
    /\ exc = ""
    /\ returned = PyNone
    /\ emitted = <<>>
    /\ executed = <<>>
    /\ sel = PyNone
    /\ obs = PyNone
    /\ call = PyNone

\* What create_engine and logs_root.mkdir, which run_task calls before its
\* try, may do: return, or raise (parse_dot on a pipeline file it cannot read
\* or that has no digraph header, mkdir on a directory it cannot make).
CreateEngineReturns == BOOLEAN

\* run_task up to the call of engine.run: the task is registered again with
\* the local list as its events, and the Context is seeded from the inputs;
\* an exception raised before the try leaves run_task, past its except
\* clause, and stays in the Future that nobody reads.
RunTaskStart ==
    /\ pc = "submitted"
    /\ task_store' = [task_store EXCEPT
                         ![TaskId] = [status |-> "running", events |-> LocalList,
                                      result |-> PyNone]]
    /\ ctx' = ( "file_id" :> PyStr("f1") @@ "mode" :> PyStr("lightweight")
                @@ "target_lang" :> PyStr("keep") @@ "filters" :> PyStr("[]")
                @@ "doc_title" :> PyStr("README") @@ "feishu_app_id" :> PyStr("")
                @@ "feishu_app_secret" :> PyStr("") )
    /\ \E created \in CreateEngineReturns :
          pc' = IF created THEN "run" ELSE "escaped"
    /\ UNCHANGED <<graph, has_backend, current_id, node_outcomes, last_outcome,
                   outcome, next_edge, events, ev, retpc, exc, returned,
                   emitted, executed, sel, obs, call>>

\* self._on_event(kind, data): control passes to on_event; the engine goes on
\* at ret when it returns.
Emit(kind, data, ret) ==
    /\ ev' = [kind |-> kind, data |-> data]
    /\ emitted' = Append(emitted, [kind |-> kind, data |-> data])
    /\ retpc' = ret
    /\ pc' = "on_event"

\* raise: control passes to the except clause of run_task.
Raise(message) ==
    /\ exc' = message
    /\ pc' = "except"

\* PipelineEngine.run up to the loop.
EngineRunBegin ==
    /\ pc = "run"
    /\ ctx' = CtxSet(CtxSet(ctx, "graph.goal", PyStr(graph.goal)),
                     "graph.label", PyStr(graph.label))
    /\ IF find_start_node(graph) = ""
       THEN /\ Raise("No start node (shape=Mdiamond or id=start) found")
            /\ UNCHANGED current_id
       ELSE /\ current_id' = find_start_node(graph)
            /\ pc' = "loop"
            /\ UNCHANGED exc
    /\ UNCHANGED <<graph, has_backend, node_outcomes, last_outcome, outcome,
                   next_edge, events, task_store, ev, retpc, returned, emitted,
                   executed, sel, obs, call>>

\* OutcomesSet that keeps the Outcome a key already has.
OutcomesSetFirst(outcomes, nid, oc) ==
    IF \E i \in DOMAIN outcomes : outcomes[i][1] = nid
    THEN outcomes
    ELSE Append(outcomes, <<nid, oc>>)

\* dict lookup and assignment on node_outcomes, a list of <<key, value>> in
\* insertion order; assigning to a key that is present keeps its place.
OutcomesSet(outcomes, nid, oc) ==
    IF \E i \in DOMAIN outcomes : outcomes[i][1] = nid
    THEN [i \in DOMAIN outcomes |->
             IF outcomes[i][1] = nid THEN <<nid, oc>> ELSE outcomes[i]]
    ELSE Append(outcomes, <<nid, oc>>)

\* GateUnsatisfied with SUCCESS alone satisfying nothing but FAIL failing:
\* only a FAIL status leaves the gate unsatisfied.
GateUnsatisfiedFailOnly(g, entry) ==
    LET n == get_node(g, entry[1])
    IN /\ n # PyNone
       /\ Truthy(AttrGet(n, "goal_gate"))
       /\ entry[2].status = FAIL

\* Whether entry <<nid, oc>> of node_outcomes leaves a goal gate unsatisfied.
GateUnsatisfied(g, entry) ==
    LET n == get_node(g, entry[1])
    IN /\ n # PyNone
       /\ Truthy(AttrGet(n, "goal_gate"))
       /\ entry[2].status \notin {SUCCESS, PARTIAL_SUCCESS}

\* The goal gate loop at a terminal node: the first entry of node_outcomes
\* that leaves a gate unsatisfied, 0 when there is none.
FirstUnsatisfied(g, outcomes) ==
    LET bad == {i \in DOMAIN outcomes : GateUnsatisfied(g, outcomes[i])}
    IN IF bad = {} THEN 0 ELSE CHOOSE i \in bad : \A j \in bad : i <= j

\* GateFailure that always reports the status, never the failure reason.
GateFailureStatus(nid, oc) ==
    FailOutcome("Goal gate unsatisfied at node '" \o nid \o "': " \o oc.status)

\* The Outcome returned for an unsatisfied goal gate.
GateFailure(nid, oc) ==
    FailOutcome("Goal gate unsatisfied at node '" \o nid \o "': "
                \o (IF oc.failure_reason # "" THEN oc.failure_reason ELSE oc.status))

\* The data of the StageStarted and StageCompleted events.
StartedEvent(node) == [node_id |-> node.id, label |-> display_name(node)]

\* CompletedEvent with the label in the place of the node id.
CompletedEventLabel(node, oc) ==
    [node_id |-> node.label, outcome |-> oc.status, notes |-> oc.notes]

CompletedEvent(node, oc) ==
    [node_id |-> node.id, outcome |-> oc.status, notes |-> oc.notes]

\* AfterStage that replaces the Context by the updates instead of merging.
AfterStageReplace(values, oc) ==
    CtxSet(oc.context_updates, "outcome", PyStr(oc.status))

\* The Context after a stage: ctx.apply_updates(outcome.context_updates),
\* ctx.set("outcome", ...) and, for a non-empty preferred_label,
\* ctx.set("preferred_label", ...).
AfterStage(values, oc) ==
    LET merged == apply_updates(values, oc.context_updates)
        with_status == CtxSet(merged, "outcome", PyStr(oc.status))
    IN IF oc.preferred_label # ""
       THEN CtxSet(with_status, "preferred_label", PyStr(oc.preferred_label))
       ELSE with_status

\* The head of the loop: a missing node raises, a terminal node ends the
\* traversal after the goal gates, any other node has its stage started.
LoopTop ==
    /\ pc = "loop"
    /\ LET node == get_node(graph, current_id)
           bad == FirstUnsatisfied(graph, node_outcomes)
       IN IF node = PyNone
          THEN /\ Raise("Node not found: " \o current_id)
               /\ UNCHANGED <<ev, retpc, emitted, returned>>
          ELSE IF is_terminal(graph, current_id)
          THEN IF bad # 0
               THEN LET nid == node_outcomes[bad][1]
                        fail == GateFailure(nid, node_outcomes[bad][2])
                    IN /\ Emit("PipelineFailed",
                               [node_id |-> nid, reason |-> fail.failure_reason],
                               "return")
                       /\ returned' = fail
                       /\ UNCHANGED exc
               ELSE /\ pc' = "break"
                    /\ UNCHANGED <<ev, retpc, emitted, returned, exc>>
          ELSE /\ Len(executed) < MaxSteps
               /\ Emit("StageStarted", StartedEvent(node), "execute")
               /\ UNCHANGED <<returned, exc>>
    /\ UNCHANGED <<graph, has_backend, ctx, current_id, node_outcomes,
                   last_outcome, outcome, next_edge, events, task_store,
                   executed, sel, obs, call>>

\* handler.execute and what the engine does with the Outcome up to the
\* StageCompleted event.
Execute ==
    /\ pc = "execute"
    /\ LET node == get_node(graph, current_id)
       IN \E oc \in HandlerExecute(node, has_backend, ToolExecutors) :
            /\ executed' = Append(executed,
                                  [node_id |-> node.id, readable |-> ctx,
                                   outcome |-> oc])
            /\ outcome' = oc
            /\ node_outcomes' = OutcomesSet(node_outcomes, current_id, oc)
            /\ last_outcome' = oc
            /\ ctx' = AfterStage(ctx, oc)
            /\ Emit("StageCompleted", CompletedEvent(node, oc), "route")
    /\ UNCHANGED <<graph, has_backend, current_id, next_edge, events,
                   task_store, exc, returned, sel, obs, call>>

\* FailEdges over every outgoing edge, guarded or not.
FailEdgesAny(g, node_id, oc, context) ==
    SortedByKey(outgoing_edges(g, node_id))

\* Failure routing: the guarded edges that match, best first.
FailEdges(g, node_id, oc, context) ==
    SortedByKey(ConditionMatched(outgoing_edges(g, node_id), oc, context))

\* The choice of the next edge after StageCompleted.
Route ==
    /\ pc = "route"
    /\ LET node == get_node(graph, current_id)
           fail_edges == FailEdges(graph, node.id, outcome, ctx)
           chosen == IF outcome.status = FAIL
                     THEN (IF fail_edges # <<>> THEN fail_edges[1] ELSE PyNone)
                     ELSE select_edge(node, outcome, ctx, graph)
       IN IF chosen # PyNone
          THEN /\ next_edge' = chosen
               /\ current_id' = chosen.to_node
               /\ pc' = "loop"
               /\ UNCHANGED exc
          ELSE IF outcome.status = FAIL
          THEN /\ Raise("Stage '" \o node.id \o "' failed: " \o outcome.failure_reason)
               /\ UNCHANGED <<next_edge, current_id>>
          ELSE /\ next_edge' = PyNone
               /\ pc' = "break"
               /\ UNCHANGED <<current_id, exc>>
    /\ UNCHANGED <<graph, has_backend, ctx, node_outcomes, last_outcome, outcome,
                   events, task_store, ev, retpc, returned, emitted, executed, sel, obs, call>>

\* Complete that returns without the PipelineCompleted event.
CompleteSilent ==
    /\ pc = "break"
    /\ pc' = "return"
    /\ returned' = IF last_outcome # PyNone THEN last_outcome
                   ELSE [Outcome(SUCCESS) EXCEPT !.notes = "Pipeline completed"]
    /\ UNCHANGED <<graph, has_backend, ctx, current_id, node_outcomes,
                   last_outcome, outcome, next_edge, events, task_store, exc,
                   executed, ev, retpc, emitted, sel, obs, call>>

\* Complete that returns the synthetic Outcome whatever was executed.
CompleteSynthetic ==
    /\ pc = "break"
    /\ Emit("PipelineCompleted", [current_node |-> current_id], "return")
    /\ returned' = [Outcome(SUCCESS) EXCEPT !.notes = "Pipeline completed"]
    /\ UNCHANGED <<graph, has_backend, ctx, current_id, node_outcomes,
                   last_outcome, outcome, next_edge, events, task_store, exc,
                   executed, sel, obs, call>>

\* After the loop: PipelineCompleted, and the last Outcome is returned.
Complete ==
    /\ pc = "break"
    /\ Emit("PipelineCompleted", [current_node |-> current_id], "return")
    /\ returned' = IF last_outcome # PyNone THEN last_outcome
                   ELSE [Outcome(SUCCESS) EXCEPT !.notes = "Pipeline completed"]
    /\ UNCHANGED <<graph, has_backend, ctx, current_id, node_outcomes,
                   last_outcome, outcome, next_edge, events, task_store, exc,
                   executed, sel, obs, call>>

\* OnEventAppend that appends nothing.
OnEventAppendNothing ==
    /\ pc = "on_event"
    /\ pc' = "on_event_progress"
    /\ UNCHANGED <<graph, has_backend, ctx, current_id, node_outcomes,
                   last_outcome, outcome, next_edge, events, task_store, ev,
                   retpc, exc, returned, emitted, executed, sel, obs, call>>

\* on_event: events.append({"kind": kind, "data": data})
OnEventAppend ==
    /\ pc = "on_event"
    /\ events' = Append(events, ev)
    /\ pc' = "on_event_progress"
    /\ UNCHANGED <<graph, has_backend, ctx, current_id, node_outcomes,
                   last_outcome, outcome, next_edge, task_store, ev, retpc, exc,
                   returned, emitted, executed, sel, obs, call>>

\* on_event: the progress event of a node id in step_names.
OnEventProgress ==
    /\ pc = "on_event_progress"
    /\ LET node_id == IF "node_id" \in DOMAIN ev.data THEN ev.data.node_id ELSE ""
       IN IF node_id \in DOMAIN step_names
          THEN events' = Append(events,
                                [kind |-> "progress",
                                 data |-> [step |-> step_names[node_id],
                                           progress |-> step_progress[step_names[node_id]]]])
          ELSE UNCHANGED events
    /\ pc' = "on_event_store"
    /\ UNCHANGED <<graph, has_backend, ctx, current_id, node_outcomes,
                   last_outcome, outcome, next_edge, task_store, ev, retpc, exc,
                   returned, emitted, executed, sel, obs, call>>

\* OnEventStore that stores the newest event alone.
OnEventStoreNewest ==
    /\ pc = "on_event_store"
    /\ task_store' = [task_store EXCEPT ![TaskId].events = OwnList(<<ev>>)]
    /\ pc' = retpc
    /\ UNCHANGED <<graph, has_backend, ctx, current_id, node_outcomes,
                   last_outcome, outcome, next_edge, events, ev, retpc, exc,
                   returned, emitted, executed, sel, obs, call>>

\* on_event: _task_store[task_id]["events"] = list(events)
OnEventStore ==
    /\ pc = "on_event_store"
    /\ IF TaskId \in DOMAIN task_store
       THEN task_store' = [task_store EXCEPT ![TaskId].events = OwnList(events)]
       ELSE UNCHANGED task_store
    /\ pc' = retpc
    /\ UNCHANGED <<graph, has_backend, ctx, current_id, node_outcomes,
                   last_outcome, outcome, next_edge, events, ev, retpc, exc,
                   returned, emitted, executed, sel, obs, call>>

\* run_task: the result dict built from the Outcome engine.run returned.
TaskResult(context, oc) ==
    [feishu_doc_url |-> CtxGetString(context, "feishu_doc_url"),
     feishu_document_id |-> CtxGetString(context, "feishu_document_id"),
     status |-> IF oc.status = SUCCESS THEN "success" ELSE "failed",
     failure_reason |-> oc.failure_reason]

\* run_task: _task_store[task_id]["result"] = result
StoreResult ==
    /\ pc = "return"
    /\ task_store' = [task_store EXCEPT ![TaskId].result = TaskResult(ctx, returned)]
    /\ pc' = "result_stored"
    /\ UNCHANGED <<graph, has_backend, ctx, current_id, node_outcomes,
                   last_outcome, outcome, next_edge, events, ev, retpc, exc,
                   returned, emitted, executed, sel, obs, call>>

\* run_task: _task_store[task_id]["status"] = "completed"
StoreCompleted ==
    /\ pc = "result_stored"
    /\ task_store' = [task_store EXCEPT ![TaskId].status = "completed"]
    /\ pc' = "completed"
    /\ UNCHANGED <<graph, has_backend, ctx, current_id, node_outcomes,
                   last_outcome, outcome, next_edge, events, ev, retpc, exc,
                   returned, emitted, executed, sel, obs, call>>

\* run_task: the final progress event is appended to the local list.
AppendFinalProgress ==
    /\ pc = "completed"
    /\ events' = Append(events,
                        [kind |-> "progress",
                         data |-> [step |-> "publishing", progress |-> 100,
                                   result |-> task_store[TaskId].result]])
    /\ pc' = "done"
    /\ UNCHANGED <<graph, has_backend, ctx, current_id, node_outcomes,
                   last_outcome, outcome, next_edge, task_store, ev, retpc, exc,
                   returned, emitted, executed, sel, obs, call>>

\* run_task, except clause: _task_store[task_id]["status"] = "failed"
StoreFailed ==
    /\ pc = "except"
    /\ task_store' = [task_store EXCEPT ![TaskId].status = "failed"]
    /\ pc' = "failed"
    /\ UNCHANGED <<graph, has_backend, ctx, current_id, node_outcomes,
                   last_outcome, outcome, next_edge, events, ev, retpc, exc,
                   returned, emitted, executed, sel, obs, call>>

\* run_task, except clause: the result names the failure.
StoreFailedResult ==
    /\ pc = "failed"
    /\ task_store' = [task_store EXCEPT
                         ![TaskId].result = [status |-> "failed",
                                             failure_reason |-> exc]]
    /\ pc' = "failed_result"
    /\ UNCHANGED <<graph, has_backend, ctx, current_id, node_outcomes,
                   last_outcome, outcome, next_edge, events, ev, retpc, exc,
                   returned, emitted, executed, sel, obs, call>>

\* run_task, except clause: the error event is appended to the local list.
AppendError ==
    /\ pc = "failed_result"
    /\ events' = Append(events, [kind |-> "error", data |-> [message |-> exc]])
    /\ pc' = "done"
    /\ UNCHANGED <<graph, has_backend, ctx, current_id, node_outcomes,
                   last_outcome, outcome, next_edge, task_store, ev, retpc, exc,
                   returned, emitted, executed, sel, obs, call>>

Next ==
    \/ RunTaskStart
    \/ EngineRunBegin
    \/ LoopTop
    \/ Execute
    \/ Route
    \/ Complete
    \/ OnEventAppend
    \/ OnEventProgress
    \/ OnEventStore
    \/ StoreResult
    \/ StoreCompleted
    \/ AppendFinalProgress
    \/ StoreFailed
    \/ StoreFailedResult
    \/ AppendError

Spec == Init /\ [][Next]_vars

(***************************************************************************)
(* Edge selection on drawn inputs                                          *)
(***************************************************************************)

\* The most outgoing edges of the node edge selection is applied to.
MaxSelEdges == 3

\* Outgoing edges of a node n: unguarded, with a guard that is true of a
\* success Outcome, with a guard that is false of it; labelled or not.
SelEdgeSet ==
    {Edge("n", to, "", cond, 1) :
        to \in {"a", "b"}, cond \in {"", "outcome=success"}}
    \cup {Edge("n", "b", "", "outcome=success", 2),
          Edge("n", "b", "", "outcome=fail", 1),
          Edge("n", "a", "Y) Yes", "outcome=fail", 0),
          Edge("n", "a", "[Y] Yes", "", 0),
          Edge("n", "b", "No", "", 1)}

SelEdgeSeqs ==
    UNION {[1 .. n -> SelEdgeSet] : n \in 0 .. MaxSelEdges}

SelOutcomes ==
    {[Outcome(SUCCESS) EXCEPT !.preferred_label = pl, !.suggested_next_ids = sids] :
        pl \in {"", "Yes"}, sids \in {<<>>, <<"b">>, <<"c", "a">>}}

InitSel ==
    /\ graph = GStraight
    /\ has_backend = FALSE
    /\ pc = "idle"
    /\ ctx = <<>>
    /\ current_id = ""
    /\ node_outcomes = <<>>
    /\ last_outcome = PyNone
    /\ outcome = PyNone
    /\ next_edge = PyNone
    /\ events = <<>>
    /\ task_store = <<>>
    /\ ev = PyNone
    /\ retpc = ""
    /\ exc = ""
    /\ returned = PyNone
    /\ emitted = <<>>
    /\ executed = <<>>
    /\ obs = PyNone
    /\ call = PyNone
    /\ sel \in {[edges |-> es, outcome |-> oc, called |-> FALSE, result |-> PyNone] :
                   es \in SelEdgeSeqs, oc \in SelOutcomes}

\* select_edge applied to the drawn edges and Outcome, with an empty Context.
SelectEdgeCall ==
    /\ ~sel.called
    /\ sel' = [sel EXCEPT !.called = TRUE,
                          !.result = SelectAmong(sel.edges, sel.outcome, <<>>)]
    /\ UNCHANGED <<engineVars, obs, call>>

NextSel == SelectEdgeCall

SpecSel == InitSel /\ [][NextSel]_vars

(***************************************************************************)
(* The observer of a task: api_task_stream's event_generator, on the event *)
(* loop, beside the worker thread that runs run_task                       *)
(***************************************************************************)

\* The graphs of the tasks that are observed.
ObsGraphs == {GStraight, GNoStart, GTerminalStart}

\* The dict get_task returns now: the one api_convert registered, until
\* run_task registers its own under the same id.
CurrentDict == IF pc = "submitted" THEN "convert" ELSE "run"

\* t.get(key) on the dict the observer holds: the dict of api_convert is
\* never written to, the dict of run_task is the entry of the task store.
DictGet(t, key) ==
    IF t = "convert"
    THEN [status |-> "running", events |-> OwnList(<<>>), result |-> PyNone][key]
    ELSE task_store[TaskId][key]

\* The items of the list a reference refers to, as they are now.
ListItems(list) == IF list.ref = "local" THEN events ELSE list.items

\* The result event that ends a stream.
ResultEvent(result) == [kind |-> "result", data |-> result]

\* api_convert has registered the task, run_task is submitted, and a client
\* has opened the task's stream.
InitObs ==
    /\ graph \in ObsGraphs
    /\ has_backend \in BOOLEAN
    /\ pc = "submitted"
    /\ ctx = <<>>
    /\ current_id = ""
    /\ node_outcomes = <<>>
    /\ last_outcome = PyNone
    /\ outcome = PyNone
    /\ next_edge = PyNone
    /\ events = <<>>
    /\ task_store = (TaskId :> [status |-> "running", events |-> OwnList(<<>>),
                                result |-> PyNone])
    /\ ev = PyNone
    /\ retpc = ""
    /\ exc = ""
    /\ returned = PyNone
    /\ emitted = <<>>
    /\ executed = <<>>
    /\ sel = PyNone
    /\ call = PyNone
    /\ obs = [pc |-> "get", t |-> "convert", events |-> OwnList(<<>>),
              last_index |-> 0, forwarded |-> <<>>]

\* event_generator: t = get_task(task_id); events = t.get("events", [])
ObsGetTask ==
    /\ obs.pc = "get"
    /\ obs' = [obs EXCEPT !.t = CurrentDict,
                          !.events = DictGet(CurrentDict, "events"),
                          !.pc = "slice"]
    /\ UNCHANGED <<engineVars, sel, call>>

\* event_generator: for ev in events[last_index:]: yield ...
ObsForward ==
    /\ obs.pc = "slice"
    /\ obs' = [obs EXCEPT
                  !.forwarded = obs.forwarded
                      \o SubSeq(ListItems(obs.events), obs.last_index + 1,
                                Len(ListItems(obs.events))),
                  !.pc = "len"]
    /\ UNCHANGED <<engineVars, sel, call>>

\* event_generator: last_index = len(events)
ObsLastIndex ==
    /\ obs.pc = "len"
    /\ obs' = [obs EXCEPT !.last_index = Len(ListItems(obs.events)),
                          !.pc = "status"]
    /\ UNCHANGED <<engineVars, sel, call>>

\* event_generator: the status is read; a task that is not running has its
\* result forwarded, when it has one, and the stream ends; else the observer
\* sleeps and reads the task again.
ObsStatus ==
    /\ obs.pc = "status"
    /\ LET status == DictGet(obs.t, "status")
           result == DictGet(obs.t, "result")
       IN IF status # "running"
          THEN obs' = [obs EXCEPT
                          !.forwarded = IF result # PyNone
                                        THEN Append(obs.forwarded, ResultEvent(result))
                                        ELSE obs.forwarded,
                          !.pc = "done"]
          ELSE obs' = [obs EXCEPT !.pc = "get"]
    /\ UNCHANGED <<engineVars, sel, call>>

NextObs ==
    \/ Next
    \/ ObsGetTask
    \/ ObsForward
    \/ ObsLastIndex
    \/ ObsStatus

SpecObs == InitObs /\ [][NextObs]_vars

(***************************************************************************)
(* Functions applied to drawn inputs                                       *)
(***************************************************************************)

\* The most tasks of the task table.
MaxTasks == 3

\* The ids of the tasks, in the order api_convert draws them.
TaskIds == <<"t1", "t2", "t3", "t4", "t5">>

\* The values a task's entry of the task table may hold: as registered, as
\* run_task leaves a run that returned, as it leaves one that raised.
TaskRecords ==
    {[status |-> "running", events |-> OwnList(<<>>), result |-> PyNone],
     [status |-> "completed", events |-> OwnList(<<>>),
      result |-> [feishu_doc_url |-> "https://x.feishu.cn/docx/d1",
                  feishu_document_id |-> "d1", status |-> "success",
                  failure_reason |-> ""]],
     [status |-> "failed", events |-> OwnList(<<>>),
      result |-> [status |-> "failed", failure_reason |-> "boom"]]}

\* The task tables: _task_store as the list of its items, in the insertion
\* order of the dict.
TaskTables ==
    UNION {{[i \in 1 .. n |-> <<TaskIds[i], data[i]>>] :
               data \in [1 .. n -> TaskRecords]} : n \in 0 .. MaxTasks}

\* dict[key] = value on a dict held as the list of its items: a key that is
\* present keeps its place, a new key goes last.
DictSet(items, key, value) ==
    IF \E i \in DOMAIN items : items[i][1] = key
    THEN [i \in DOMAIN items |->
             IF items[i][1] = key THEN <<key, value>> ELSE items[i]]
    ELSE Append(items, <<key, value>>)

\* dict.get(key) on a result dict: None for a key that is absent.
ResultGet(result, key) ==
    IF key \in DOMAIN result THEN PyStr(result[key]) ELSE PyNone

\* list.reverse()
Reverse(seq) == [i \in 1 .. Len(seq) |-> seq[Len(seq) + 1 - i]]

\* list[start:end] for start >= 0 and end >= 0.
ListSlice(seq, start, end) ==
    SubSeq(seq, Min(start, Len(seq)) + 1, Min(end, Len(seq)))

\* list_tasks: the row of one task.
TaskRow(tid, data) ==
    IF data.result # PyNone
    THEN [task_id |-> tid, status |-> data.status,
          feishu_doc_url |-> ResultGet(data.result, "feishu_doc_url"),
          failure_reason |-> ResultGet(data.result, "failure_reason")]
    ELSE [task_id |-> tid, status |-> data.status]

\* list_tasks without the reversal of the items.
list_tasksUnreversed(table, page, size) ==
    LET start == (page - 1) * size
        end == start + size
        rows == ListSlice(table, start, end)
    IN [tasks |-> [i \in DOMAIN rows |-> TaskRow(rows[i][1], rows[i][2])],
        total |-> Len(table)]

\* list_tasks(page, size) on the task table.
list_tasks(table, page, size) ==
    LET items == Reverse(table)
        start == (page - 1) * size
        end == start + size
        rows == ListSlice(items, start, end)
    IN [tasks |-> [i \in DOMAIN rows |-> TaskRow(rows[i][1], rows[i][2])],
        total |-> Len(items)]

\* The drawn calls of list_tasks.
ListCalls ==
    {[op |-> "list_tasks", table |-> t, page |-> p, size |-> n,
      registered |-> "", called |-> FALSE, result |-> PyNone] :
        t \in TaskTables, p \in 1 .. MaxTasks, n \in 1 .. MaxTasks}

\* api_convert: a task is registered under a new id.
ApiConvertRegister ==
    /\ call.op = "list_tasks"
    /\ ~call.called
    /\ call.registered = ""
    /\ Len(call.table) < MaxTasks
    /\ LET task_id == TaskIds[Len(call.table) + 1]
       IN call' = [call EXCEPT
                      !.table = DictSet(call.table, task_id,
                                        [status |-> "running",
                                         events |-> OwnList(<<>>),
                                         result |-> PyNone]),
                      !.registered = task_id]
    /\ UNCHANGED <<engineVars, sel, obs>>

\* run_task: the task registered last is registered again under its id.
RunTaskRegister ==
    /\ call.op = "list_tasks"
    /\ ~call.called
    /\ call.registered # ""
    /\ call.table[Len(call.table)][2].events.ref = "own"
    /\ call' = [call EXCEPT
                   !.table = DictSet(call.table, call.registered,
                                     [status |-> "running", events |-> LocalList,
                                      result |-> PyNone])]
    /\ UNCHANGED <<engineVars, sel, obs>>

\* list_tasks(page, size)
ListTasksCall ==
    /\ call.op = "list_tasks"
    /\ ~call.called
    /\ call' = [call EXCEPT
                   !.called = TRUE,
                   !.result = list_tasks(call.table, call.page, call.size)]
    /\ UNCHANGED <<engineVars, sel, obs>>

\* The most clauses of a drawn guard.
MaxClauses == 2

\* The keys of the drawn clauses.
CondKeys == {"outcome", "preferred_label", "context.k", "context.xk", "k", "u"}

\* The drawn clauses: key = "value", key != "value" and a bare key, the value
\* in quotes or not, blanks around the operator or not.
CondClauses ==
    {[key |-> k, cmp |-> c, value |-> v, quoted |-> q, blanks |-> b] :
        k \in CondKeys, c \in {"=", "!="}, v \in {"", "v", "success"},
        q \in BOOLEAN, b \in BOOLEAN}
    \cup {[key |-> k, cmp |-> "", value |-> "", quoted |-> FALSE, blanks |-> b] :
            k \in CondKeys, b \in BOOLEAN}

\* The clauses a drawn guard continues with.
CondTailClauses ==
    {[key |-> "outcome", cmp |-> "=", value |-> "success", quoted |-> FALSE,
      blanks |-> FALSE],
     [key |-> "k", cmp |-> "!=", value |-> "v", quoted |-> TRUE,
      blanks |-> TRUE]}

\* The text of a clause.
ClauseText(c) ==
    LET sp == IF c.blanks THEN " " ELSE ""
        val == IF c.quoted THEN "\"" \o c.value \o "\"" ELSE c.value
    IN IF c.cmp = "" THEN sp \o c.key \o sp
       ELSE c.key \o sp \o c.cmp \o sp \o val

\* The text of a guard: its clauses joined by &&.
RECURSIVE GuardText(_)
GuardText(clauses) ==
    IF clauses = <<>> THEN ""
    ELSE IF Len(clauses) = 1 THEN ClauseText(clauses[1])
    ELSE ClauseText(clauses[1])
         \o (IF clauses[1].blanks THEN " && " ELSE "&&")
         \o GuardText(Tail(clauses))

\* The drawn guards, as their clauses.
RECURSIVE GuardsOfLen(_)
GuardsOfLen(n) ==
    IF n = 0 THEN {<<>>}
    ELSE IF n = 1 THEN {<<c>> : c \in CondClauses}
    ELSE {Append(g, c) : g \in GuardsOfLen(n - 1), c \in CondTailClauses}

\* The drawn Contexts.
CondContexts ==
    {<<>>,
     "k" :> PyStr("v"),
     "xk" :> PyStr("v"),
     "context.k" :> PyStr("v"),
     ("k" :> PyStr("success")) @@ ("context.xk" :> PyStr("v"))}

\* The drawn Outcomes.
CondOutcomes ==
    {Outcome(SUCCESS), [Outcome(FAIL) EXCEPT !.preferred_label = "v"]}

\* The drawn calls of evaluate_condition.
CondCalls ==
    {[op |-> "evaluate_condition", clauses |-> g, condition |-> GuardText(g),
      outcome |-> oc, context |-> cx, called |-> FALSE, result |-> PyNone] :
        g \in UNION {GuardsOfLen(n) : n \in 0 .. MaxClauses},
        oc \in CondOutcomes, cx \in CondContexts}

\* evaluate_condition(condition, outcome, context)
EvaluateConditionCall ==
    /\ call.op = "evaluate_condition"
    /\ ~call.called
    /\ call' = [call EXCEPT
                   !.called = TRUE,
                   !.result = PyBool(evaluate_condition(call.condition,
                                                        call.outcome,
                                                        call.context))]
    /\ UNCHANGED <<engineVars, sel, obs>>

\* The most outgoing edges of the node whose next edge is chosen.
MaxGuardEdges == 2

\* The drawn edges out of n: without a guard, with a guard of one blank, with
\* the guard outcome=success.
GuardEdgeSet ==
    {Edge("n", to, "", cond, w) :
        to \in {"a", "b"}, cond \in {"", " ", "outcome=success"}, w \in {0, 1}}

GuardEdgeSeqs ==
    UNION {[1 .. n -> GuardEdgeSet] : n \in 1 .. MaxGuardEdges}

\* The graph of the node n and its outgoing edges.
GuardGraph(edges) ==
    Graph(<<Node("n", "box"), Node("a", "box"), Node("b", "box")>>, edges)

\* The edges with the guard of the edge at position i made empty when it
\* consists of whitespace alone.
WithEmptyGuard(edges, i) ==
    [j \in DOMAIN edges |->
        IF j = i /\ edges[j].condition # "" /\ Strip(edges[j].condition) = ""
        THEN [edges[j] EXCEPT !.condition = ""]
        ELSE edges[j]]

\* The drawn choices of the next edge: the edges, the position of the edge
\* whose guard is made empty, the Outcome of the stage.
GuardCalls ==
    {[op |-> "select_edge", edges |-> es, at |-> i, outcome |-> Outcome(st),
      called |-> FALSE, result |-> PyNone, result_empty |-> PyNone] :
        es \in GuardEdgeSeqs, i \in 1 .. MaxGuardEdges, st \in {SUCCESS, FAIL}}

\* The choice of the next edge in PipelineEngine.run, with an empty Context:
\* the best fail edge (None when there is none) after FAIL, select_edge
\* otherwise.
NextEdgeOf(edges, oc) ==
    LET g == GuardGraph(edges)
        fail_edges == FailEdges(g, "n", oc, <<>>)
    IN IF oc.status = FAIL
       THEN (IF fail_edges # <<>> THEN fail_edges[1] ELSE PyNone)
       ELSE select_edge(get_node(g, "n"), oc, <<>>, g)

\* The next edge is chosen among the drawn edges, and among them with the
\* guard of one edge made empty.
NextEdgeCall ==
    /\ call.op = "select_edge"
    /\ ~call.called
    /\ call' = [call EXCEPT
                   !.called = TRUE,
                   !.result = NextEdgeOf(call.edges, call.outcome),
                   !.result_empty =
                       NextEdgeOf(WithEmptyGuard(call.edges, call.at),
                                  call.outcome)]
    /\ UNCHANGED <<engineVars, sel, obs>>

\* The text of a label: the accelerator prefix of the form, for the
\* character x, before the rest.
LabelText(form, x, rest) ==
    CASE form = "bracket" -> "[" \o x \o "] " \o rest
      [] form = "paren" -> x \o ") " \o rest
      [] form = "dash" -> x \o " - " \o rest
      [] form = "none" -> rest

\* The drawn labels, as their form, accelerator character and rest, with
\* blanks before them or not.
LabelParts ==
    {[form |-> f, x |-> x, rest |-> r, lead |-> l] :
        f \in {"bracket", "paren", "dash", "none"}, x \in {"Y", "n", "1"},
        r \in {"Yes", "YES ", "No go", "A"}, l \in {"", " "}}

\* The drawn calls of _normalize_label: the label, and a node n with an edge
\* to yes_branch that bears the label and an edge to no_branch labelled No,
\* the edge to no_branch first or last, its weight 0 or 1, and an Outcome
\* that prefers a label.
LabelCalls ==
    {[op |-> "normalize_label", parts |-> lp,
      label |-> lp.lead \o LabelText(lp.form, lp.x, lp.rest),
      no_first |-> nf, no_weight |-> w,
      outcome |-> [Outcome(SUCCESS) EXCEPT !.preferred_label = pl],
      called |-> FALSE, result |-> PyNone, chosen |-> PyNone] :
        lp \in LabelParts, nf \in BOOLEAN, w \in {0, 1}, pl \in {"yes", " YES"}}

\* The outgoing edges of n in a drawn call of _normalize_label.
LabelEdges(c) ==
    LET yes == Edge("n", "yes_branch", c.label, "", 0)
        no == Edge("n", "no_branch", "No", "", c.no_weight)
    IN IF c.no_first THEN <<no, yes>> ELSE <<yes, no>>

\* _normalize_label(label), and select_edge on the two labelled edges.
NormalizeLabelCall ==
    /\ call.op = "normalize_label"
    /\ ~call.called
    /\ LET g == Graph(<<Node("n", "diamond"), Node("yes_branch", "box"),
                        Node("no_branch", "box")>>, LabelEdges(call))
       IN call' = [call EXCEPT
                      !.called = TRUE,
                      !.result = PyStr(normalize_label(call.label)),
                      !.chosen = select_edge(get_node(g, "n"), call.outcome,
                                             <<>>, g)]
    /\ UNCHANGED <<engineVars, sel, obs>>

\* The drawn nodes of _resolve_handler: the type not set, a type with a
\* registered handler, types with none; shapes of the table, with a
\* registered handler for their type and with none, and a shape outside it.
HandlerNodes ==
    {[Node("n", sh) EXCEPT !.type = t] :
        t \in {"", "tool", "conditional", "wait.human", "parallel", "custom"},
        sh \in {"Mdiamond", "Msquare", "box", "parallelogram", "diamond",
                "hexagon", "component", "oval"}}

\* The drawn calls of _resolve_handler.
HandlerCalls ==
    {[op |-> "resolve_handler", node |-> n, called |-> FALSE,
      result |-> PyNone] : n \in HandlerNodes}

\* PipelineEngine._resolve_handler(node)
ResolveHandlerCall ==
    /\ call.op = "resolve_handler"
    /\ ~call.called
    /\ call' = [call EXCEPT !.called = TRUE,
                            !.result = PyStr(resolve_handler(call.node))]
    /\ UNCHANGED <<engineVars, sel, obs>>

\* The drawn calls.
Calls ==
    ListCalls \cup CondCalls \cup GuardCalls \cup LabelCalls \cup HandlerCalls

InitPure ==
    /\ graph = GStraight
    /\ has_backend = FALSE
    /\ pc = "idle"
    /\ ctx = <<>>
    /\ current_id = ""
    /\ node_outcomes = <<>>
    /\ last_outcome = PyNone
    /\ outcome = PyNone
    /\ next_edge = PyNone
    /\ events = <<>>
    /\ task_store = <<>>
    /\ ev = PyNone
    /\ retpc = ""
    /\ exc = ""
    /\ returned = PyNone
    /\ emitted = <<>>
    /\ executed = <<>>
    /\ sel = PyNone
    /\ obs = PyNone
    /\ call \in Calls

NextPure ==
    \/ ApiConvertRegister
    \/ RunTaskRegister
    \/ ListTasksCall
    \/ EvaluateConditionCall
    \/ NextEdgeCall
    \/ NormalizeLabelCall
    \/ ResolveHandlerCall

SpecPure == InitPure /\ [][NextPure]_vars

(***************************************************************************)
(* pipeline/dot_parser.py                                                  *)
(***************************************************************************)

\* The characters \w matches: letters, digits and the underscore.
WordChars ==
    {Ascii[i] : i \in (17 .. 26) \cup (34 .. 59) \cup (66 .. 91)} \cup {"_"}

\* How far a run of the characters cs reaches at the start of s: the length
\* \w+ matches for cs = WordChars, \s* for cs = Whitespace.
Span(s, cs) ==
    CHOOSE n \in 0 .. Len(s) :
        /\ \A i \in 0 .. (n - 1) : Slice(s, i, i + 1) \in cs
        /\ n = Len(s) \/ Slice(s, n, n + 1) \notin cs

\* _strip_comments: the line comments are removed, then the block comments.
strip_comments(text) ==
    LET RECURSIVE Line(_)
        Line(s) ==
            LET i == Find(s, "//")
                n == Find(SliceFrom(s, i), "\n")
            IN IF i < 0 THEN s
               ELSE IF n < 0 THEN Slice(s, 0, i)
               ELSE Slice(s, 0, i) \o Line(SliceFrom(s, i + n))
        RECURSIVE Block(_)
        Block(s) ==
            LET i == Find(s, "/*")
                n == Find(SliceFrom(s, i + 2), "*/")
            IN IF i < 0 THEN s
               ELSE IF n < 0 THEN s
               ELSE Slice(s, 0, i) \o Block(SliceFrom(s, i + n + 4))
    IN Block(Line(text))

\* _parse_value: a quoted str without its quotes and escapes, a bool, an int,
\* else the str itself (an int is an optional sign before digits; float
\* literals are not modelled).
parse_value(s0) ==
    LET s == Strip(s0)
        RECURSIVE Replace(_, _, _)
        Replace(t, old, new) ==
            LET i == Find(t, old)
            IN IF i < 0 THEN t
               ELSE Slice(t, 0, i) \o new
                    \o Replace(SliceFrom(t, i + Len(old)), old, new)
        digits == IF s # "" /\ Head(s) \in {"+", "-"} THEN Tail(s) ELSE s
        RECURSIVE Number(_, _)
        Number(t, n) ==
            IF t = "" THEN n
            ELSE Number(Tail(t), 10 * n + CodePoint(Head(t)) - 48)
    IN IF StartsWith(s, "\"") /\ SliceFrom(s, Len(s) - 1) = "\""
       THEN PyStr(Replace(Replace(Replace(Replace(Slice(s, 1, Len(s) - 1),
                "\\n", "\n"), "\\t", "\t"), "\\\"", "\""), "\\\\", "\\"))
       ELSE IF Lower(s) = "true" THEN PyBool(TRUE)
       ELSE IF Lower(s) = "false" THEN PyBool(FALSE)
       ELSE IF digits # "" /\ Span(digits, {Ascii[i] : i \in 17 .. 26}) = Len(digits)
       THEN PyInt(IF Head(s) = "-" THEN 0 - Number(digits, 0)
                  ELSE Number(digits, 0))
       ELSE PyStr(s)

\* _parse_attr_block: "[k = v, k2 = v2]" as a dict; the commas inside quotes
\* do not split, a part without = is dropped.
parse_attr_block(content0) ==
    LET content == Strip(content0)
        inner == Strip(Slice(content, 1, Len(content) - 1))
        RECURSIVE Parts(_, _, _)
        Parts(s, current, in_quote) ==
            IF s = "" THEN (IF current # "" THEN <<current>> ELSE <<>>)
            ELSE IF Head(s) = "\""
                    /\ (current = "" \/ SliceFrom(current, Len(current) - 1) # "\\")
            THEN Parts(Tail(s), current \o Head(s), ~in_quote)
            ELSE IF Head(s) = "," /\ ~in_quote
            THEN <<current>> \o Parts(Tail(s), "", FALSE)
            ELSE Parts(Tail(s), current \o Head(s), in_quote)
        RECURSIVE Fill(_, _)
        Fill(attrs, parts) ==
            IF parts = <<>> THEN attrs
            ELSE LET part == Strip(Head(parts))
                     kv == Split1(part, "=")
                 IN IF Contains(part, "=")
                    THEN Fill(CtxSet(attrs, Strip(kv[1]), parse_value(Strip(kv[2]))),
                              Tail(parts))
                    ELSE Fill(attrs, Tail(parts))
    IN IF content = "" \/ content = "[]" THEN <<>>
       ELSE Fill(<<>>, Parts(inner, "", FALSE))

\* Node(id=nid, label=str(attrs.get("label", nid)), shape=..., attrs=attrs)
NodeOf(nid, attrs) ==
    LET Get(key, default) ==
            IF key \in DOMAIN attrs THEN ToStr(attrs[key]) ELSE default
    IN [id |-> nid, label |-> Get("label", nid), shape |-> Get("shape", "box"),
        type |-> Get("type", ""), prompt |-> Get("prompt", ""), attrs |-> attrs]

\* Edge(from_node=from_id, to_node=to_id, label=..., condition=...,
\* weight=int(attrs.get("weight", 0))); None where int() raises ValueError,
\* on a str that is not an optional sign before digits.
EdgeOf(from_id, to_id, attrs) ==
    LET Get(key) == IF key \in DOMAIN attrs THEN ToStr(attrs[key]) ELSE ""
        w == IF "weight" \in DOMAIN attrs THEN attrs["weight"] ELSE PyInt(0)
        n == IF w.py = "str" THEN parse_value(w.v) ELSE w
    IN IF w.py = "str" /\ n.py # "int" THEN PyNone
       ELSE Edge(from_id, to_id, Get("label"), Get("condition"),
                 IF n.py = "bool" THEN (IF n.v THEN 1 ELSE 0) ELSE n.v)

\* parse_dot up to the statement loop: the parser's state at the first
\* iteration; raised when the text does not start with digraph\s+(\w+)\s*\{.
ParseStart(source) ==
    LET State(text, rest, digraph_match) ==
            [rest |-> IF ~digraph_match THEN ""
                      ELSE IF rest # "" /\ SliceFrom(rest, Len(rest) - 1) = "}"
                      THEN Slice(rest, 0, Len(rest) - 1)
                      ELSE rest,
             pos |-> 0, nodes |-> <<>>, edges |-> <<>>, goal |-> "",
             label |-> "", node_defaults |-> <<>>, edge_defaults |-> <<>>,
             branch |-> "", stop |-> FALSE, raised |-> ~digraph_match]
        \* a: where the name starts, b: where it ends, c: after \s*
        Name(text, a, b, c) ==
            State(text, RStripChars(SliceFrom(text, c + 1), Whitespace),
                  StartsWith(text, "digraph") /\ a > 7 /\ b > a
                     /\ Slice(text, c, c + 1) = "{")
        Word(text, a, b) ==
            Name(text, a, b, b + Span(SliceFrom(text, b), Whitespace))
        Header(text, a) ==
            Word(text, a, a + Span(SliceFrom(text, a), WordChars))
        Text(text) == Header(text, 7 + Span(SliceFrom(text, 7), Whitespace))
    IN Text(Strip(strip_comments(source)))

\* A skip that does not advance.
SkipNone(pos) == 0

\* pos += 1
SkipByte(pos) == pos + 1

\* One iteration of the statement loop of parse_dot, on the parser's state
\* st (rest, pos, the graph so far, the defaults): the state after it, with
\* the branch taken, whether the loop was left by break, whether it raised.
\* r is rest[pos:].lstrip(), w where \w+ ends in it, a where the \s* after
\* that ends.
ParseStep(st) ==
    LET Ws(r, i) == i + Span(SliceFrom(r, i), Whitespace)
        Declared(nid) == \E i \in DOMAIN st.nodes : st.nodes[i].id = nid
        Base(r) == [st EXCEPT !.rest = r, !.branch = "", !.stop = FALSE,
                              !.raised = FALSE]
        \* kw\s*\[(.*?)\] : where the match ends (-1 for none), and group 1
        BlockAt(r, kw, o, n) ==
            IF StartsWith(r, kw) /\ Slice(r, o, o + 1) = "[" /\ n >= 0
            THEN [end |-> o + n + 2, content |-> Slice(r, o + 1, o + 1 + n)]
            ELSE [end |-> -1, content |-> ""]
        BlockFrom(r, kw, o) ==
            BlockAt(r, kw, o, Find(SliceFrom(r, o + 1), "]"))
        Block(r, kw) == BlockFrom(r, kw, Ws(r, Len(kw)))
        \* (\w+)\s*=\s*([^;]+);? : value is the text up to the next ;
        DeclOf(r, a, value, semi) ==
            [match |-> Slice(r, a, a + 1) = "=" /\ value # "",
             end |-> a + 1 + Len(value) + (IF semi < 0 THEN 0 ELSE 1),
             v |-> parse_value(Strip(value))]
        DeclUpTo(r, a, after, semi) ==
            DeclOf(r, a, IF semi < 0 THEN after ELSE Slice(after, 0, semi), semi)
        DeclAfter(r, a, after) == DeclUpTo(r, a, after, Find(after, ";"))
        Decl(r, a) == DeclAfter(r, a, SliceFrom(r, a + 1))
        \* the scan for the ] outside quotes that closes the node's block
        RECURSIVE Close(_, _, _)
        Close(r, i, in_quote) ==
            IF i >= Len(r) THEN -1
            ELSE IF Slice(r, i, i + 1) = "\"" /\ Slice(r, i - 1, i) # "\\"
            THEN Close(r, i + 1, ~in_quote)
            ELSE IF Slice(r, i, i + 1) = "]" /\ ~in_quote THEN i
            ELSE Close(r, i + 1, in_quote)
        NodeBlock(r, k, a, close) ==
            IF close < 0
            THEN [Base(r) EXCEPT !.branch = "node_open", !.pos = Len(r)]
            ELSE [Base(r) EXCEPT !.branch = "node", !.pos = close + 1,
                     !.nodes =
                         IF Declared(k) THEN @
                         ELSE Append(@, NodeOf(k,
                                  apply_updates(st.node_defaults,
                                      parse_attr_block(Slice(r, a, close + 1)))))]
        \* (\w+)(\s*\[(.*?)\])?;? from b on: e where \w+ ends, c where the
        \* \s* after it ends, n where the first ] is found after c
        TargetEnd(r, b, e, attr_str, end) ==
            [to |-> Slice(r, b, e), attr_str |-> attr_str,
             end |-> IF Slice(r, end, end + 1) = ";" THEN end + 1 ELSE end]
        TargetBlock(r, b, e, c, n) ==
            IF Slice(r, c, c + 1) = "[" /\ n >= 0
            THEN TargetEnd(r, b, e, Slice(r, c + 1, c + 1 + n), c + n + 2)
            ELSE TargetEnd(r, b, e, "", e)
        TargetWs(r, b, e, c) ==
            TargetBlock(r, b, e, c, Find(SliceFrom(r, c + 1), "]"))
        TargetWord(r, b, e) == TargetWs(r, b, e, Ws(r, e))
        Target(r, b) == TargetWord(r, b, b + Span(SliceFrom(r, b), WordChars))
        \* while re.match(r"->\s*\w+", rest_check): the edges of the chain;
        \* at is where rest_check starts in r, b where its \w+ starts
        RECURSIVE Chain(_, _, _, _, _)
        ChainEdge(r, pos, at, to_id, edges, attrs, next_arrow) ==
            Chain(r, pos + (next_arrow.end - at), next_arrow.to,
                  Append(edges, EdgeOf(to_id, next_arrow.to, attrs)), attrs)
        ChainArrow(r, pos, at, b, to_id, edges, attrs) ==
            IF Slice(r, at, at + 2) = "->"
               /\ Span(SliceFrom(r, b), WordChars) > 0
            THEN ChainEdge(r, pos, at, to_id, edges, attrs, Target(r, b))
            ELSE [pos |-> pos, edges |-> edges]
        ChainAt(r, pos, at, to_id, edges, attrs) ==
            ChainArrow(r, pos, at, Ws(r, at + 2), to_id, edges, attrs)
        Chain(r, pos, to_id, edges, attrs) ==
            ChainAt(r, pos, Ws(r, pos), to_id, edges, attrs)
        \* (\w+)\s*->\s*(\w+)(\s*\[(.*?)\])?;? and the chain after it
        EdgeChain(r, chain) ==
            [Base(r) EXCEPT !.branch = "edge", !.pos = chain.pos,
                            !.edges = chain.edges]
        EdgeWith(r, k, first, attrs, edge) ==
            IF edge = PyNone
            THEN [Base(r) EXCEPT !.branch = "edge", !.raised = TRUE]
            ELSE EdgeChain(r, Chain(r, first.end, first.to,
                                    Append(st.edges, edge), attrs))
        EdgeAttrs(r, k, first, attrs) ==
            EdgeWith(r, k, first, attrs, EdgeOf(k, first.to, attrs))
        EdgeTo(r, k, first) ==
            EdgeAttrs(r, k, first,
                      IF first.attr_str # ""
                      THEN apply_updates(st.edge_defaults,
                               parse_attr_block("[" \o first.attr_str \o "]"))
                      ELSE st.edge_defaults)
        \* (\w+)\s*;?\s*
        Bare(r, k, semi_at) ==
            [Base(r) EXCEPT !.branch = "node_bare", !.pos = Ws(r, semi_at),
                !.nodes = IF Declared(k) THEN @
                          ELSE Append(@, NodeOf(k, st.node_defaults))]
        Graph_(r, g, attrs) ==
            [Base(r) EXCEPT !.branch = "graph", !.pos = g.end,
                !.goal = IF "goal" \in DOMAIN attrs THEN ToStr(attrs["goal"])
                         ELSE "",
                !.label = IF "label" \in DOMAIN attrs
                          THEN ToStr(attrs["label"]) ELSE ""]
        Branch(r, w, a, k, g, decl, nd, ed, b) ==
            IF r = "" THEN [Base(r) EXCEPT !.stop = TRUE, !.branch = "break"]
            ELSE IF g.end >= 0
            THEN Graph_(r, g, parse_attr_block("[" \o g.content \o "]"))
            ELSE IF w > 0 /\ decl.match
            THEN [Base(r) EXCEPT !.branch = "decl", !.pos = decl.end,
                     !.goal = IF k = "goal" THEN ToStr(decl.v) ELSE @,
                     !.label = IF k = "label" THEN ToStr(decl.v) ELSE @]
            ELSE IF nd.end >= 0
            THEN [Base(r) EXCEPT !.branch = "node_defaults", !.pos = nd.end,
                     !.node_defaults =
                         parse_attr_block("[" \o nd.content \o "]")]
            ELSE IF ed.end >= 0
            THEN [Base(r) EXCEPT !.branch = "edge_defaults", !.pos = ed.end,
                     !.edge_defaults =
                         parse_attr_block("[" \o ed.content \o "]")]
            ELSE IF w > 0 /\ Slice(r, a, a + 1) = "["
            THEN NodeBlock(r, k, a, Close(r, a + 1, FALSE))
            ELSE IF w > 0 /\ Slice(r, a, a + 2) = "->"
                    /\ Span(SliceFrom(r, b), WordChars) > 0
            THEN EdgeTo(r, k, Target(r, b))
            ELSE IF w > 0
            THEN Bare(r, k, IF Slice(r, a, a + 1) = ";" THEN a + 1 ELSE a)
            ELSE [Base(r) EXCEPT !.branch = "skip", !.pos = SkipByte(st.pos)]
        Word(r, w, a) ==
            Branch(r, w, a, Slice(r, 0, w), Block(r, "graph"), Decl(r, a),
                   Block(r, "node"), Block(r, "edge"), Ws(r, a + 2))
        Rest(r, w) == Word(r, w, Ws(r, w))
    IN (LET r == LStripChars(SliceFrom(st.rest, st.pos), Whitespace)
        IN Rest(r, Span(r, WordChars)))

\* The most statements of a drawn source.
MaxStmts == 2

\* The drawn statements: a node with an attribute block, a node without, an
\* edge without a block, with a weight, with a weight that is no number, and
\* a chain of two edges with a block.
Stmts ==
    {[kind |-> "node", id |-> i, shape |-> sh,
      text |-> i \o " [shape=" \o sh \o "]"] :
        i \in {"a", "b"}, sh \in {"box", "diamond"}}
    \cup {[kind |-> "bare", id |-> i, shape |-> "box", text |-> i] :
            i \in {"a", "b"}}
    \cup {[kind |-> "edge", id |-> "", shape |-> blk,
           text |-> "a -> b" \o (IF blk = "" THEN "" ELSE " [" \o blk \o "]")] :
            blk \in {"", "weight=2", "weight=heavy"}}
    \cup {[kind |-> "chain", id |-> "", shape |-> "label=\"x\", weight=2",
           text |-> "a -> b -> c [label=\"x\", weight=2]"]}

\* The drawn calls of parse_dot: the source is a header, or the word graph in
\* its place, before the statements, each followed by the separator.
ParseCalls ==
    LET RECURSIVE Body(_, _)
        Body(stmts, sep) ==
            IF stmts = <<>> THEN ""
            ELSE Head(stmts).text \o sep \o Body(Tail(stmts), sep)
    IN {[op |-> "parse_dot", stmts |-> ss, sep |-> sep, header |-> h,
         source |-> h \o " G {\n" \o Body(ss, sep) \o "}",
         pc |-> "start", iterations |-> 0, text_len |-> 0,
         st |-> PyNone] :
           ss \in UNION {[1 .. n -> Stmts] : n \in 0 .. MaxStmts},
           sep \in {"\n", ";\n"}, h \in {"digraph", "graph"}}

\* parse_dot up to the statement loop.
ParseBegin ==
    /\ call.op = "parse_dot"
    /\ call.pc = "start"
    /\ LET Begun(st) == [call EXCEPT
                            !.st = st,
                            !.text_len = Len(st.rest),
                            !.pc = IF st.raised THEN "raised" ELSE "loop"]
       IN call' = Begun(ParseStart(call.source))
    /\ UNCHANGED <<engineVars, sel, obs>>

\* The test of the statement loop and one iteration of it, or the return of
\* the graph; the loop is followed for at most one iteration more than the
\* text has characters.
ParseStatement ==
    /\ call.op = "parse_dot"
    /\ call.pc = "loop"
    /\ call.iterations <= call.text_len
    /\ IF call.st.pos < Len(call.st.rest)
       THEN LET Stepped(st) == [call EXCEPT
                                   !.st = st,
                                   !.iterations = @ + 1,
                                   !.pc = IF st.raised THEN "raised"
                                          ELSE IF st.stop THEN "done"
                                          ELSE "loop"]
            IN call' = Stepped(ParseStep(call.st))
       ELSE call' = [call EXCEPT !.pc = "done"]
    /\ UNCHANGED <<engineVars, sel, obs>>

InitParse ==
    /\ graph = GStraight
    /\ has_backend = FALSE
    /\ pc = "idle"
    /\ ctx = <<>>
    /\ current_id = ""
    /\ node_outcomes = <<>>
    /\ last_outcome = PyNone
    /\ outcome = PyNone
    /\ next_edge = PyNone
    /\ events = <<>>
    /\ task_store = <<>>
    /\ ev = PyNone
    /\ retpc = ""
    /\ exc = ""
    /\ returned = PyNone
    /\ emitted = <<>>
    /\ executed = <<>>
    /\ sel = PyNone
    /\ obs = PyNone
    /\ call \in ParseCalls

NextParse ==
    \/ ParseBegin
    \/ ParseStatement

SpecParse == InitParse /\ [][NextParse]_vars

(***************************************************************************)
(* Properties                                                              *)
(***************************************************************************)

Last(seq) == seq[Len(seq)]

\* The stage events among the events the engine emitted.
StageEvents ==
    LET IsStage(e) == e.kind \in {"StageStarted", "StageCompleted"}
    IN SelectSeq(emitted, IsStage)

\* C1: the stage events are StageStarted(n1), StageCompleted(n1),
\* StageStarted(n2), StageCompleted(n2), ... for the nodes n1, n2, ... in the
\* order their handlers were executed: a stage is completed before the next
\* is started, pairs never interleave, and the only stage event beyond the
\* executed handlers is the StageStarted of the stage about to execute.
C1_EventOrder ==
    LET n == Len(executed)
    IN /\ Len(StageEvents) \in {2 * n, 2 * n + 1}
       /\ \A i \in 1 .. n :
            /\ StageEvents[2 * i - 1].kind = "StageStarted"
            /\ StageEvents[2 * i - 1].data.node_id = executed[i].node_id
            /\ StageEvents[2 * i].kind = "StageCompleted"
            /\ StageEvents[2 * i].data.node_id = executed[i].node_id
            /\ StageEvents[2 * i].data.outcome = executed[i].outcome.status
       /\ Len(StageEvents) = 2 * n + 1 =>
            /\ Last(StageEvents).kind = "StageStarted"
            /\ Last(StageEvents).data.node_id = current_id
            /\ pc \in {"on_event", "on_event_progress", "on_event_store", "execute"}

\* A run that executed three handlers, the second of them twice in a row.
C1_Witness ==
    /\ Len(executed) >= 3
    /\ executed[2].node_id = executed[3].node_id
    /\ executed[1].node_id # executed[2].node_id
    /\ Len(StageEvents) = 6

\* Some node that was executed carries a truthy goal_gate and its recorded
\* Outcome is neither SUCCESS nor PARTIAL_SUCCESS.
SomeGateUnsatisfied ==
    \E i \in DOMAIN node_outcomes :
        \E k \in DOMAIN graph.nodes :
            /\ graph.nodes[k].id = node_outcomes[i][1]
            /\ Truthy(AttrGet(graph.nodes[k], "goal_gate"))
            /\ node_outcomes[i][2].status # SUCCESS
            /\ node_outcomes[i][2].status # PARTIAL_SUCCESS

\* The traversal stands at a terminal node: its shape is Msquare or its id
\* is exit or end in any case.
AtTerminal ==
    \E k \in DOMAIN graph.nodes :
        /\ graph.nodes[k].id = current_id
        /\ \/ graph.nodes[k].shape = "Msquare"
           \/ Lower(current_id) \in {"exit", "end"}

\* C2: goal gate soundness: when the run has returned from a terminal node
\* and a goal-gated node's recorded Outcome is neither SUCCESS nor
\* PARTIAL_SUCCESS, the Outcome returned has status FAIL.
C2_GoalGateSound ==
    (returned # PyNone /\ AtTerminal /\ SomeGateUnsatisfied)
        => returned.status = FAIL

\* A run that returned at a terminal node while a goal-gated node had last
\* been skipped or told to retry.
C2_Witness ==
    /\ returned # PyNone
    /\ AtTerminal
    /\ SomeGateUnsatisfied
    /\ \E i \in DOMAIN node_outcomes : node_outcomes[i][2].status \in {SKIPPED, RETRY}

\* The smallest element of a non-empty set of integers.
MinOf(S) == CHOOSE x \in S : \A y \in S : x <= y

\* The five groups of edge selection, as sets of positions in the drawn
\* edges.  Group 1: a non-empty guard that evaluates true.
SelGroup1 ==
    {i \in DOMAIN sel.edges :
        /\ sel.edges[i].condition # ""
        /\ evaluate_condition(sel.edges[i].condition, sel.outcome, <<>>)}

\* Group 2: with a non-empty preferred_label, the first edge whose
\* normalized label equals the normalized preferred_label.
SelGroup2 ==
    LET hits == {i \in DOMAIN sel.edges :
                    normalize_label(sel.edges[i].label)
                        = normalize_label(sel.outcome.preferred_label)}
    IN IF sel.outcome.preferred_label = "" \/ hits = {} THEN {}
       ELSE {MinOf(hits)}

\* Group 3: for the first suggested id that is the destination of an edge,
\* the first edge with that destination.
SelGroup3 ==
    LET sids == sel.outcome.suggested_next_ids
        To(sid) == {i \in DOMAIN sel.edges : sel.edges[i].to_node = sid}
        hit == {k \in DOMAIN sids : To(sids[k]) # {}}
    IN IF hit = {} THEN {} ELSE {MinOf(To(sids[MinOf(hit)]))}

\* Group 4: an empty guard.
SelGroup4 == {i \in DOMAIN sel.edges : sel.edges[i].condition = ""}

\* Group 5: any edge.
SelGroup5 == DOMAIN sel.edges

\* The first non-empty group.
SelWinningGroup ==
    IF SelGroup1 # {} THEN SelGroup1
    ELSE IF SelGroup2 # {} THEN SelGroup2
    ELSE IF SelGroup3 # {} THEN SelGroup3
    ELSE IF SelGroup4 # {} THEN SelGroup4
    ELSE SelGroup5

\* C3: edge selection returns an edge of the first non-empty group among
\* (1) true non-empty guard, (2) first edge matching the preferred label,
\* (3) first edge to a suggested id in the ids' order, (4) empty guard,
\* (5) any edge; an edge of a later group is never returned when an earlier
\* group is non-empty, and without outgoing edges nothing is returned.
C3_SelectPriority ==
    sel.called =>
        IF sel.edges = <<>> THEN sel.result = PyNone
        ELSE \E i \in SelWinningGroup : sel.result = sel.edges[i]

\* The true-guarded edge is returned although another edge matches the
\* preferred label, a third is suggested, and the third is also the heaviest
\* unguarded edge.
C3_Witness ==
    /\ sel.called
    /\ Len(sel.edges) = 3
    /\ SelGroup1 = {1}
    /\ SelGroup2 = {2}
    /\ SelGroup3 = {3}
    /\ SelGroup4 = {2, 3}
    /\ sel.edges[3].weight > sel.edges[2].weight
    /\ sel.result = sel.edges[1]
    /\ sel.result # sel.edges[2]
    /\ sel.result # sel.edges[3]

\* Whether the key (weight DESC, to_node ASC) of edge x is not after that of
\* edge y.
KeyNotAfter(x, y) ==
    \/ x.weight > y.weight
    \/ /\ x.weight = y.weight
       /\ (x.to_node = y.to_node \/ StrLess(x.to_node, y.to_node))

\* The positions of the group's edges whose key no other edge of the group
\* precedes.
BestOf(group) ==
    {i \in group : \A j \in group : KeyNotAfter(sel.edges[i], sel.edges[j])}

\* Edge selection was decided by the sort: the condition-matched group is
\* non-empty, or neither the preferred label nor a suggested id matched.
SelBySort == SelGroup1 # {} \/ (SelGroup2 = {} /\ SelGroup3 = {})

\* C4: edge selection is a function of its inputs: within the
\* condition-matched, unconditional and any-edge groups the edge returned has
\* the greatest weight of the group and, among the edges of that weight, the
\* lexicographically smallest to_node; it is the first such edge of the
\* node's outgoing edges, so the same inputs always give the same edge.
C4_SelectTieBreak ==
    (sel.called /\ sel.edges # <<>> /\ SelBySort) =>
        LET group == SelWinningGroup
            best == BestOf(group)
        IN /\ best # {}
           /\ sel.result = sel.edges[MinOf(best)]
           /\ \A j \in group :
                 /\ sel.result.weight >= sel.edges[j].weight
                 /\ sel.result.weight = sel.edges[j].weight =>
                       ~StrLess(sel.edges[j].to_node, sel.result.to_node)

\* Unguarded edges to b and to a, both of weight 1, give a.
C4_Witness ==
    /\ sel.called
    /\ sel.edges = <<Edge("n", "b", "", "", 1), Edge("n", "a", "", "", 1)>>
    /\ sel.outcome.preferred_label = ""
    /\ sel.outcome.suggested_next_ids = <<>>
    /\ sel.result.to_node = "a"

\* The outgoing edges of the stage executed last whose non-empty guard is
\* true of its Outcome and the Context, as positions in the graph's edges.
LastGuardMatches ==
    {i \in DOMAIN graph.edges :
        /\ graph.edges[i].from_node = Last(executed).node_id
        /\ graph.edges[i].condition # ""
        /\ evaluate_condition(graph.edges[i].condition,
                              Last(executed).outcome, ctx)}

\* The stage executed last returned FAIL.
LastFailed == executed # <<>> /\ Last(executed).outcome.status = FAIL

\* The engine is between the StageCompleted event and the choice of the edge.
Routing == pc \in {"on_event", "on_event_progress", "on_event_store", "route"}

\* C5: fail routing is guard-only.  After a stage returned FAIL and an edge
\* was chosen, that edge is an outgoing edge of the stage whose non-empty
\* guard matches, no matching edge has a greater weight or the same weight
\* and a smaller to_node, and the traversal stands at its destination,
\* whatever preferred_label and suggested_next_ids say.  When no guard
\* matches, the run has stopped with an error that names the stage and no
\* event follows the StageCompleted of the failed stage.
C5_FailRouting ==
    /\ (LastFailed /\ pc = "loop") =>
          /\ \E i \in LastGuardMatches : next_edge = graph.edges[i]
          /\ next_edge.condition # ""
          /\ \A j \in LastGuardMatches : KeyNotAfter(next_edge, graph.edges[j])
          /\ current_id = next_edge.to_node
    /\ (LastFailed /\ LastGuardMatches = {} /\ ~Routing) =>
          /\ pc \in {"except", "failed", "failed_result", "done"}
          /\ exc = "Stage '" \o Last(executed).node_id \o "' failed: "
                      \o Last(executed).outcome.failure_reason
          /\ returned = PyNone
          /\ Last(emitted).kind = "StageCompleted"
          /\ Last(emitted).data.node_id = Last(executed).node_id

\* A FAIL Outcome that prefers the label yes and suggests b is routed to
\* fixb, the heavier guarded match of smaller name, although an unguarded
\* edge to b weighs more and an edge labelled Yes exists.
C5_Witness ==
    /\ graph = GRoute
    /\ LastFailed
    /\ pc = "loop"
    /\ Last(executed).node_id = "decide"
    /\ Last(executed).outcome.preferred_label = "yes"
    /\ Last(executed).outcome.suggested_next_ids = <<"b">>
    /\ current_id = "fixb"
    /\ Cardinality(LastGuardMatches) = 3

\* Some event of the task's event list, as get_task reads it, is an error
\* event whose message contains both strings.
ErrorEventWith(a, b) ==
    \E i \in DOMAIN TaskEvents(task_store, events, TaskId) :
        LET e == TaskEvents(task_store, events, TaskId)[i]
        IN /\ e.kind = "error"
           /\ Contains(e.data.message, a)
           /\ Contains(e.data.message, b)

\* C6: when a stage returned FAIL and no outgoing edge's guard matched, once
\* the task runner is done the task's status is failed and the task's event
\* list holds an error event whose message contains the node id and the
\* failure reason.
C6_ErrorEventStored ==
    (pc = "done" /\ LastFailed /\ LastGuardMatches = {}) =>
        /\ task_store[TaskId].status = "failed"
        /\ ErrorEventWith(Last(executed).node_id,
                          Last(executed).outcome.failure_reason)

\* The run returned at a terminal node with a goal gate unsatisfied.
GateCase == returned # PyNone /\ AtTerminal /\ SomeGateUnsatisfied

\* The failure reason of an unsatisfied goal gate recorded for some node:
\* the node's id and its Outcome's failure_reason, or its status when that
\* is empty.
GateReasons ==
    {"Goal gate unsatisfied at node '" \o node_outcomes[i][1] \o "': "
        \o (IF node_outcomes[i][2].failure_reason # ""
            THEN node_outcomes[i][2].failure_reason
            ELSE node_outcomes[i][2].status) :
     i \in {k \in DOMAIN node_outcomes :
               /\ node_outcomes[k][2].status \notin {SUCCESS, PARTIAL_SUCCESS}
               /\ \E n \in DOMAIN graph.nodes :
                     /\ graph.nodes[n].id = node_outcomes[k][1]
                     /\ Truthy(AttrGet(graph.nodes[n], "goal_gate"))}}

\* C7: when a terminal node is reached with a goal gate unsatisfied, no
\* exception escapes the engine, its last event is PipelineFailed, the
\* Outcome returned is FAIL with the failure_reason "Goal gate unsatisfied at
\* node '<id>': <reason-or-status>", and the task ends with status completed
\* and a result of status failed that carries this failure_reason.
C7_GateFailureStructured ==
    GateCase =>
        /\ exc = ""
        /\ pc \notin {"except", "failed", "failed_result"}
        /\ Last(emitted).kind = "PipelineFailed"
        /\ returned.status = FAIL
        /\ returned.failure_reason \in GateReasons
        /\ Last(emitted).data.reason = returned.failure_reason
        /\ pc = "done" =>
              /\ task_store[TaskId].status = "completed"
              /\ task_store[TaskId].result.status = "failed"
              /\ task_store[TaskId].result.failure_reason = returned.failure_reason

\* The gated node critical failed with the reason boom, was routed to the
\* terminal node by its fail edge, and the task is done.
C7_Witness ==
    /\ GateCase
    /\ pc = "done"
    /\ graph = GGoalGate
    /\ returned.failure_reason = "Goal gate unsatisfied at node 'critical': boom"
    /\ task_store[TaskId].status = "completed"

\* C8: when the engine run returned and the task runner is done, the task's
\* status is completed, its result is not null, and the task's event list,
\* as get_task reads it, ends with the progress event at 100% that carries
\* the result.
C8_FinalProgressStored ==
    (pc = "done" /\ returned # PyNone) =>
        /\ task_store[TaskId].status = "completed"
        /\ task_store[TaskId].result # PyNone
        /\ TaskEvents(task_store, events, TaskId) # <<>>
        /\ Last(TaskEvents(task_store, events, TaskId)).kind = "progress"
        /\ Last(TaskEvents(task_store, events, TaskId)).data.progress = 100

\* No stage executed after the i-th and before the j-th writes key k in its
\* context_updates.
NotRewritten(i, j, k) ==
    \A m \in (i + 1) .. (j - 1) : k \notin DOMAIN executed[m].outcome.context_updates

\* Key k of the i-th stage's context_updates is read with that stage's value
\* by the j-th stage.
ReadsUpdate(i, j, k) ==
    /\ k \in DOMAIN executed[j].readable
    /\ executed[j].readable[k] = executed[i].outcome.context_updates[k]

\* C9 as stated: every key of a stage's context_updates, the keys outcome
\* and preferred_label included, is read with that value by every later
\* stage until a later stage's context_updates overwrite it.
C9_PersistsEveryKey ==
    \A i \in DOMAIN executed : \A j \in DOMAIN executed :
        i < j =>
            \A k \in DOMAIN executed[i].outcome.context_updates :
                NotRewritten(i, j, k) => ReadsUpdate(i, j, k)

\* The engine leaves key k as stages i .. j-1 wrote it: k is not outcome,
\* and it is not preferred_label when one of these stages returned a
\* non-empty preferred_label.
EngineLeaves(i, j, k) ==
    /\ k # "outcome"
    /\ k = "preferred_label" =>
          \A m \in i .. (j - 1) : executed[m].outcome.preferred_label = ""

\* C9: a key of a stage's context_updates is read with that value by every
\* later stage until a later stage's context_updates overwrite it, except
\* where the engine writes the key itself: after every stage outcome holds
\* that stage's status, and after a stage with a non-empty preferred_label
\* preferred_label holds that label.
C9_Persists ==
    \A i \in DOMAIN executed : \A j \in DOMAIN executed :
        i < j =>
            /\ \A k \in DOMAIN executed[i].outcome.context_updates :
                  (NotRewritten(i, j, k) /\ EngineLeaves(i, j, k))
                      => ReadsUpdate(i, j, k)
            /\ j = i + 1 =>
                  /\ CtxGet(executed[j].readable, "outcome")
                        = PyStr(executed[i].outcome.status)
                  /\ executed[i].outcome.preferred_label # "" =>
                        CtxGet(executed[j].readable, "preferred_label")
                            = PyStr(executed[i].outcome.preferred_label)

\* The second stage wrote k, the third wrote other keys, and the fourth
\* reads the second's value of k.
C9_Witness ==
    /\ Len(executed) = 4
    /\ "k" \in DOMAIN executed[2].outcome.context_updates
    /\ executed[3].outcome.context_updates # <<>>
    /\ "k" \notin DOMAIN executed[3].outcome.context_updates
    /\ executed[4].readable["k"] = executed[2].outcome.context_updates["k"]
    /\ executed[4].readable["outcome"] = PyStr(executed[3].outcome.status)

\* The events the engine emitted, each reduced to its kind, its node and,
\* for StageCompleted, the status.
EmittedSummary ==
    [i \in DOMAIN emitted |->
        IF emitted[i].kind = "StageStarted"
        THEN <<"StageStarted", emitted[i].data.node_id>>
        ELSE IF emitted[i].kind = "StageCompleted"
        THEN <<"StageCompleted", emitted[i].data.node_id, emitted[i].data.outcome>>
        ELSE IF emitted[i].kind = "PipelineCompleted"
        THEN <<"PipelineCompleted", emitted[i].data.current_node>>
        ELSE <<emitted[i].kind>>]

\* The engine ran the straight-line graph to its return, stage a answered
\* by the simulated response of a missing backend or by a backend's text.
StraightLineRun ==
    /\ graph = GStraight
    /\ returned # PyNone
    /\ \A i \in DOMAIN executed :
          executed[i].node_id = "a" =>
              executed[i].outcome \in
                  {CodergenText(Node("a", "box"), r) :
                      r \in BackendTexts \cup {"[Simulated] Response for stage: a"}}

\* C10 as stated: the straight-line run emits StageStarted and
\* StageCompleted for start, a and end, then PipelineCompleted.
C10_SevenEvents ==
    StraightLineRun =>
        EmittedSummary = << <<"StageStarted", "start">>,
                            <<"StageCompleted", "start", SUCCESS>>,
                            <<"StageStarted", "a">>,
                            <<"StageCompleted", "a", SUCCESS>>,
                            <<"StageStarted", "end">>,
                            <<"StageCompleted", "end", SUCCESS>>,
                            <<"PipelineCompleted", "end">> >>

\* C10: the straight-line run emits exactly StageStarted(start),
\* StageCompleted(start, success), StageStarted(a), StageCompleted(a,
\* success) and PipelineCompleted at end: the traversal stops on reaching the
\* terminal node end, whose handler is not executed.
C10_FiveEvents ==
    StraightLineRun =>
        EmittedSummary = << <<"StageStarted", "start">>,
                            <<"StageCompleted", "start", SUCCESS>>,
                            <<"StageStarted", "a">>,
                            <<"StageCompleted", "a", SUCCESS>>,
                            <<"PipelineCompleted", "end">> >>

\* The straight-line run without a backend has returned SUCCESS at end.
C10_Witness ==
    /\ StraightLineRun
    /\ ~has_backend
    /\ pc = "done"
    /\ current_id = "end"
    /\ returned.status = SUCCESS
    /\ Len(executed) = 2

\* C11: for every interleaving of the worker with the observer, when both
\* have finished the observer has forwarded every event of the task's event
\* list exactly once and in order, followed, when the task finished with a
\* result, by the result event that carries the task's result.
C11_ObserverForwardsAll ==
    (obs.pc = "done" /\ pc = "done") =>
        obs.forwarded =
            TaskEvents(task_store, events, TaskId)
                \o (IF task_store[TaskId].result # PyNone
                    THEN <<ResultEvent(task_store[TaskId].result)>>
                    ELSE <<>>)

\* Whether sequence a is a prefix of sequence b.
IsPrefix(a, b) == Len(a) <= Len(b) /\ a = SubSeq(b, 1, Len(a))

\* C12: what a read of the task's event list returns is at every moment a
\* prefix of the events the runner has recorded, and it extends what any
\* earlier read returned: every step leaves the earlier list a prefix of the
\* later one.
C12_PrefixGrowth ==
    [][/\ IsPrefix(TaskEvents(task_store, events, TaskId),
                   TaskEvents(task_store', events', TaskId))
       /\ IsPrefix(TaskEvents(task_store', events', TaskId), events')]_vars

\* During the run a read returns some but not all of the recorded events.
C12_Witness ==
    /\ task_store[TaskId].status = "running"
    /\ Len(TaskEvents(task_store, events, TaskId)) >= 2
    /\ Len(TaskEvents(task_store, events, TaskId)) < Len(events)

\* The events of the task's event list that the engine emitted.
StoredEngineEvents ==
    LET FromEngine(e) == e.kind \in {"StageStarted", "StageCompleted",
                                     "PipelineCompleted", "PipelineFailed"}
    IN SelectSeq(TaskEvents(task_store, events, TaskId), FromEngine)

\* engine.run has returned or raised.
RunEnded ==
    pc \in {"return", "result_stored", "completed", "except", "failed",
            "failed_result", "done"}

\* C13: once the run has ended, normally or by an exception, the events of
\* the task's event list of the kinds StageStarted, StageCompleted,
\* PipelineCompleted and PipelineFailed are the events the engine emitted, in
\* the order of emission.
C13_EmittedStored ==
    RunEnded => StoredEngineEvents = emitted

\* A run that ended by an exception after four stage events, with progress
\* events of the task runner between them in the task's event list.
C13_Witness ==
    /\ pc = "done"
    /\ exc # ""
    /\ Len(emitted) >= 4
    /\ Len(TaskEvents(task_store, events, TaskId)) > Len(emitted)

\* The i-th executed handler's backend or tool executor raised: its Outcome
\* carries the raised message as its failure_reason.
BackendRaised(i) == executed[i].outcome.failure_reason \in BackendErrors

\* The graph has no entry node: no node of shape Mdiamond and none with the
\* id start or Start.
NoEntryNode ==
    \A k \in DOMAIN graph.nodes :
        /\ graph.nodes[k].shape # "Mdiamond"
        /\ graph.nodes[k].id \notin {"start", "Start"}

\* The i-th executed stage was left by an outgoing edge to the next executed
\* stage whose non-empty guard is true of the i-th Outcome.
LeftByGuard(i) ==
    \E k \in DOMAIN graph.edges :
        /\ graph.edges[k].from_node = executed[i].node_id
        /\ graph.edges[k].to_node = executed[i + 1].node_id
        /\ graph.edges[k].condition # ""
        /\ evaluate_condition(graph.edges[k].condition, executed[i].outcome,
                              executed[i + 1].readable)

RowsNewestFirst(table) ==
    [i \in 1 .. Len(table) |->
        TaskRow(table[Len(table) + 1 - i][1], table[Len(table) + 1 - i][2])]

\* The pages 1 .. n of the listing, one after the other.
RECURSIVE PagesUpTo(_, _, _)
PagesUpTo(table, size, n) ==
    IF n = 0 THEN <<>>
    ELSE PagesUpTo(table, size, n - 1) \o list_tasks(table, n, size).tasks

\* C15: for page >= 1 and size >= 1, list_tasks returns as total the number
\* of tasks of the table and as tasks the rows (page-1)*size+1 .. page*size
\* of the tasks ordered most recently registered first; the pages together
\* list every task exactly once; a task api_convert just registered is the
\* first row of the first page.
C15_ListPaging ==
    (call.op = "list_tasks" /\ call.called) =>
        LET rows == RowsNewestFirst(call.table)
            first == (call.page - 1) * call.size + 1
            last == IF call.page * call.size < Len(rows)
                    THEN call.page * call.size ELSE Len(rows)
        IN /\ call.result.total = Len(call.table)
           /\ call.result.tasks = [i \in 1 .. (last - first + 1) |-> rows[first + i - 1]]
           /\ PagesUpTo(call.table, call.size, Len(rows)) = rows
           /\ (call.registered # "" /\ call.page = 1) =>
                 /\ call.result.tasks[1].task_id = call.registered
                 /\ call.result.tasks[1].status = "running"

\* The second page of size one of a table of three tasks, the newest of them
\* just registered and taken up by run_task.
C15_Witness ==
    /\ call.op = "list_tasks"
    /\ call.called
    /\ Len(call.table) = 3
    /\ call.registered = "t3"
    /\ call.table[3][2].events = LocalList
    /\ call.page = 2
    /\ call.size = 1
    /\ call.result.tasks[1].task_id = "t2"
    /\ call.result.tasks[1].status \in {"completed", "failed"}

\* Whether the Context holds no value for a key of a guard: the key is
\* neither outcome nor preferred_label, and the Context has a value neither at
\* the key nor, for context.<name>, at <name>.
KeyMissing(key, context) ==
    /\ key \notin {"outcome", "preferred_label"}
    /\ key \notin DOMAIN context
    /\ StartsWith(key, "context.") => SliceFrom(key, 8) \notin DOMAIN context

\* The value of a clause whose key resolves to the str r.
ClauseOn(c, r) ==
    IF c.cmp = "=" THEN r = c.value
    ELSE IF c.cmp = "!=" THEN r # c.value
    ELSE r # ""

\* C16: the empty guard evaluates to true, and a guard of one clause on a
\* key the Context holds no value for evaluates as that clause on the empty
\* string: key = "value" is true only for the value "", key != "value" is
\* false only for the value "", the bare key is false.
C16_MissingKeyEmpty ==
    (call.op = "evaluate_condition" /\ call.called) =>
        /\ call.clauses = <<>> => call.result = PyBool(TRUE)
        /\ (Len(call.clauses) = 1 /\ KeyMissing(call.clauses[1].key, call.context))
              => call.result = PyBool(ClauseOn(call.clauses[1], ""))

\* resolve as the specification gives it.
ResolveAsSpecified(key, oc, context) ==
    IF key = "outcome" THEN oc.status
    ELSE IF key = "preferred_label" THEN oc.preferred_label
    ELSE IF StartsWith(key, "context.") /\ SliceFrom(key, 8) \in DOMAIN context
    THEN ToStr(context[SliceFrom(key, 8)])
    ELSE IF key \in DOMAIN context THEN ToStr(context[key])
    ELSE ""

\* C17: a guard evaluates true exactly when each of its clauses is true,
\* key = "value" being true iff resolve(key) equals value, key != "value" iff
\* it differs, a bare key iff resolve(key) is not empty, with resolve as the
\* specification gives it.
C17_GuardSemantics ==
    (call.op = "evaluate_condition" /\ call.called) =>
        call.result =
            PyBool(\A i \in DOMAIN call.clauses :
                      ClauseOn(call.clauses[i],
                               ResolveAsSpecified(call.clauses[i].key,
                                                  call.outcome, call.context)))

\* An edge without its guard (None stays None).
SansGuard(e) ==
    IF e = PyNone THEN PyNone
    ELSE [from_node |-> e.from_node, to_node |-> e.to_node, label |-> e.label,
          weight |-> e.weight]

\* C18: making a whitespace-only guard of an edge empty changes neither the
\* edge that edge selection chooses nor whether fail routing finds a route.
C18_WhitespaceGuardAsEmpty ==
    (call.op = "select_edge" /\ call.called) =>
        SansGuard(call.result) = SansGuard(call.result_empty)

\* C19: a label with an accelerator prefix "[X] ", "X) " or "X - ", or with
\* none, normalizes to its rest, trimmed and in lower case; where that is
\* "yes" and no edge is condition-matched, an Outcome that prefers the label
\* yes leaves n by the edge that bears the label, not by the edge labelled No.
C19_LabelNormalization ==
    (call.op = "normalize_label" /\ call.called) =>
        /\ call.result = PyStr(Lower(Strip(call.parts.rest)))
        /\ Lower(Strip(call.parts.rest)) = "yes" =>
              call.chosen.to_node = "yes_branch"

\* The label "[Y] Yes" was normalized to "yes", and its edge chosen over the
\* edge labelled No, which comes first and weighs more.
C19_Witness ==
    /\ call.op = "normalize_label"
    /\ call.called
    /\ call.label = "[Y] Yes"
    /\ call.result = PyStr("yes")
    /\ call.outcome.preferred_label = "yes"
    /\ call.no_first
    /\ call.no_weight = 1
    /\ call.chosen.label = "[Y] Yes"

\* The stage type of a node: its type when that is set, else the type the
\* table gives for its shape (codergen for a shape outside the table).
StageType(node) ==
    IF node.type # "" THEN node.type
    ELSE IF node.shape \in DOMAIN SHAPE_TO_TYPE THEN SHAPE_TO_TYPE[node.shape]
    ELSE "codergen"

\* C20: a node is dispatched to the handler registered for its stage type,
\* which is its type when that is set and is derived from its shape only when
\* it is not; a stage type without a registered handler is dispatched to the
\* codergen handler, whatever the shape.
C20_HandlerResolution ==
    (call.op = "resolve_handler" /\ call.called) =>
        call.result = PyStr(IF StageType(call.node) \in RegisteredTypes
                            THEN StageType(call.node)
                            ELSE "codergen")

(***************************************************************************)
(* Properties of parse_dot                                                 *)
(***************************************************************************)

\* parse_dot has returned the graph of a drawn source.
Parsed == call.op = "parse_dot" /\ call.pc = "done"

\* C21: every node declared in a source with a valid header is in the parsed
\* graph's node map exactly once, with the attributes of its first
\* declaration.
C21_DeclaredNodesOnce ==
    Parsed =>
        \A i \in DOMAIN call.stmts :
            call.stmts[i].kind \in {"node", "bare"} =>
                LET decls == {j \in DOMAIN call.stmts :
                                 /\ call.stmts[j].kind \in {"node", "bare"}
                                 /\ call.stmts[j].id = call.stmts[i].id}
                    first == CHOOSE j \in decls : \A k \in decls : j <= k
                    found == {k \in DOMAIN call.st.nodes :
                                 call.st.nodes[k].id = call.stmts[i].id}
                IN /\ Cardinality(found) = 1
                   /\ \A k \in found :
                         call.st.nodes[k].shape = call.stmts[first].shape

\* C22: a chain a -> b -> c [attrs] gives exactly the edges a -> b and
\* b -> c, each with the label, condition and weight of attrs.
C22_ChainCarriesAttrs ==
    (Parsed /\ Len(call.stmts) = 1 /\ call.stmts[1].kind = "chain") =>
        call.st.edges = << Edge("a", "b", "x", "", 2), Edge("b", "c", "x", "", 2) >>

\* C23: both endpoints of every edge of a parsed graph are ids of its node
\* map.
C23_EndpointsDeclared ==
    Parsed =>
        \A i \in DOMAIN call.st.edges :
            \A end \in {call.st.edges[i].from_node, call.st.edges[i].to_node} :
                \E k \in DOMAIN call.st.nodes : call.st.nodes[k].id = end

\* C24: an iteration that finds no statement at the start of the remaining
\* text advances by exactly one character of it.
C24_SkipOneCharacter ==
    (call.op = "parse_dot" /\ call.pc \in {"loop", "done"}
        /\ call.st.branch = "skip") => call.st.pos = 1

\* C25: parse_dot raises exactly when the source lacks the digraph header.
C25_RaisesOnlyWithoutHeader ==
    (call.op = "parse_dot" /\ call.pc # "start") =>
        ((call.pc = "raised") <=> (call.header # "digraph"))

\* C26: every iteration of the statement loop consumes at least one character
\* of the remaining text: the iterations made and the characters left never
\* exceed the characters the loop started with, so the loop ends after at
\* most that many iterations.
C26_ForwardProgress ==
    (call.op = "parse_dot" /\ call.pc \in {"loop", "done"}) =>
        call.iterations + Len(SliceFrom(call.st.rest, call.st.pos))
            <= call.text_len

\* A parse that ended after a skipped fragment, in several iterations.
C26_Witness ==
    Parsed /\ call.st.branch = "skip" /\ call.iterations >= 2

(***************************************************************************)
(* Properties of the traversal's entry and end                             *)
(***************************************************************************)

\* The node the run visited first: the node of the first event the engine
\* emitted, the current node while it has emitted none.
FirstVisited ==
    IF emitted = <<>> THEN current_id
    ELSE IF emitted[1].kind = "PipelineCompleted"
    THEN emitted[1].data.current_node
    ELSE emitted[1].data.node_id

\* e is the entry the graph g has: its first Mdiamond node in declaration
\* order; with no Mdiamond node the id start when declared, else Start.
IsEntry(g, e) ==
    LET Md(i) == g.nodes[i].shape = "Mdiamond"
        Has(id) == \E i \in DOMAIN g.nodes : g.nodes[i].id = id
    IN IF \E i \in DOMAIN g.nodes : Md(i)
       THEN \E i \in DOMAIN g.nodes :
               /\ Md(i)
               /\ g.nodes[i].id = e
               /\ \A j \in 1 .. (i - 1) : ~Md(j)
       ELSE IF Has("start") THEN e = "start"
       ELSE Has("Start") /\ e = "Start"

\* C27: once the engine is past entry resolution (run_task was not left
\* before it called the engine), the node visited first is
\* the first Mdiamond node in declaration order, else the node start, else
\* the node Start; with none of them the engine has raised, no handler was
\* executed and no event emitted.
C27_EntryResolution ==
    pc \notin {"submitted", "run", "escaped"} =>
        IF NoEntryNode
        THEN /\ exc = "No start node (shape=Mdiamond or id=start) found"
             /\ executed = <<>>
             /\ emitted = <<>>
        ELSE /\ exc # "No start node (shape=Mdiamond or id=start) found"
             /\ IsEntry(graph, FirstVisited)
             /\ executed # <<>> => executed[1].node_id = FirstVisited

\* A run entered at the Mdiamond node declared first, which is declared
\* after the nodes start and Start, and went on to the end.
C27_Witness ==
    /\ pc = "done"
    /\ Len(graph.nodes) = 5
    /\ graph.nodes[1].id = "start"
    /\ graph.nodes[3].id = "m1"
    /\ executed # <<>>
    /\ executed[1].node_id = "m1"

\* The engine emitted PipelineCompleted, as its last event.
Completed == emitted # <<>> /\ Last(emitted).kind = "PipelineCompleted"

\* C28: a run that ended normally emitted PipelineCompleted with the node the
\* traversal stopped at, a terminal node or the stage executed last, and
\* returned the Outcome of the stage executed last, or the synthetic SUCCESS
\* Outcome when no stage was executed; a run that returned an Outcome ended
\* with PipelineCompleted or PipelineFailed.
C28_NormalTermination ==
    /\ Completed =>
          /\ Last(emitted).data.current_node = current_id
          /\ \/ is_terminal(graph, current_id)
             \/ executed # <<>> /\ Last(executed).node_id = current_id
          /\ returned = IF executed = <<>>
                        THEN [Outcome(SUCCESS) EXCEPT !.notes = "Pipeline completed"]
                        ELSE Last(executed).outcome
          /\ exc = ""
    /\ returned # PyNone =>
          \/ Completed
          \/ Last(emitted).kind = "PipelineFailed" /\ returned.status = FAIL

\* A run that was routed to the terminal node by fail edges and returned the
\* FAIL Outcome of its last stage with PipelineCompleted.
C28_Witness ==
    /\ Completed
    /\ Len(executed) >= 2
    /\ returned = Last(executed).outcome
    /\ returned.status = FAIL
    /\ is_terminal(graph, current_id)

\* The terminal node was reached with every recorded goal gate satisfied and
\* the gate of some node satisfied by PARTIAL_SUCCESS.
GateMetByPartialSuccess ==
    /\ is_terminal(graph, current_id)
    /\ FirstUnsatisfied(graph, node_outcomes) = 0
    /\ \E k \in DOMAIN node_outcomes :
          /\ Truthy(AttrGet(get_node(graph, node_outcomes[k][1]), "goal_gate"))
          /\ node_outcomes[k][2].status = PARTIAL_SUCCESS

\* C29: when the terminal node is reached after a goal-gated node returned
\* PARTIAL_SUCCESS, and no gate is unsatisfied, the run completes SUCCESS:
\* no PipelineFailed, PipelineCompleted, the returned Outcome is SUCCESS and
\* the task result derived from it is success.
C29_PartialSuccessCompletes ==
    (GateMetByPartialSuccess /\ pc \notin {"loop", "break"}) =>
        /\ \A i \in DOMAIN emitted : emitted[i].kind # "PipelineFailed"
        /\ Completed
        /\ returned.status = SUCCESS
        /\ task_store[TaskId].result # PyNone =>
              task_store[TaskId].result.status = "success"

\* C30: a run never ends in an exception at a node that has no outgoing
\* edges; when that node is not terminal and the run has ended, the node
\* was executed and PipelineCompleted names it, whatever its Outcome.
C30_NoOutgoingHaltsCleanly ==
    (/\ get_node(graph, current_id) # PyNone
     /\ outgoing_edges(graph, current_id) = <<>>
     /\ exc # "" \/ returned # PyNone) =>
        /\ exc = ""
        /\ ~is_terminal(graph, current_id) =>
              /\ executed # <<>>
              /\ Last(executed).node_id = current_id
              /\ Completed
              /\ Last(emitted).data.current_node = current_id

\* The declared node nid has the shape Msquare, or the id exit or end in any
\* case.
TerminalNode(nid) ==
    \E k \in DOMAIN graph.nodes :
        /\ graph.nodes[k].id = nid
        /\ \/ graph.nodes[k].shape = "Msquare"
           \/ Lower(nid) \in {"exit", "end"}

\* C33: the handler of a terminal node is never invoked, no StageStarted or
\* StageCompleted is emitted for it, and no edge out of it is followed: once
\* the traversal is at a terminal node the goal gates decide and the run
\* ends.
C33_TerminalStops ==
    /\ \A i \in DOMAIN executed : ~TerminalNode(executed[i].node_id)
    /\ \A i \in DOMAIN emitted :
          emitted[i].kind \in {"StageStarted", "StageCompleted"} =>
              ~TerminalNode(emitted[i].data.node_id)
    /\ next_edge # PyNone => ~TerminalNode(next_edge.from_node)
    /\ (TerminalNode(current_id) /\ pc \notin {"loop", "break", "on_event",
                                              "on_event_store"}) =>
          /\ returned # PyNone
          /\ Last(emitted).kind \in {"PipelineCompleted", "PipelineFailed"}

\* A run whose entry node is terminal and has an outgoing edge: it ended
\* there with nothing executed.
C33_Witness ==
    /\ pc = "done"
    /\ graph = GTerminalStart
    /\ outgoing_edges(graph, current_id) # <<>>
    /\ executed = <<>>
    /\ Completed

\* C32: select_edge returns None exactly when the node has no outgoing
\* edges; with at least one it returns one of them, also when every edge
\* carries a guard that is false.
C32_NullOnlyWithoutEdges ==
    sel.called =>
        /\ (sel.result = PyNone) <=> (sel.edges = <<>>)
        /\ sel.edges # <<>> =>
              \E i \in DOMAIN sel.edges : sel.result = sel.edges[i]

\* select_edge was called on two edges whose guards are both false of the
\* Outcome, with no label or suggested id that matches, and returned an edge.
C32_Witness ==
    /\ sel.called
    /\ Len(sel.edges) = 2
    /\ \A i \in DOMAIN sel.edges :
          /\ sel.edges[i].condition # ""
          /\ ~evaluate_condition(sel.edges[i].condition, sel.outcome, <<>>)
    /\ sel.outcome.preferred_label = ""
    /\ sel.outcome.suggested_next_ids = <<>>
    /\ sel.result # PyNone

\* The places of the pipeline-level events among the events the engine
\* emitted.
PipelineEvents ==
    {i \in DOMAIN emitted :
        emitted[i].kind \in {"PipelineCompleted", "PipelineFailed"}}

\* C34: a run emits at most one pipeline-level event; a run that returned
\* emitted exactly one, as its last event; a run that raised emitted none,
\* and when it raised for a FAIL without a route its last event is the
\* StageCompleted of the failing node.
C34_OnePipelineEvent ==
    /\ Cardinality(PipelineEvents) <= 1
    /\ PipelineEvents # {} => (Len(emitted) \in PipelineEvents /\ returned # PyNone)
    /\ returned # PyNone => PipelineEvents # {}
    /\ exc # "" =>
          /\ PipelineEvents = {}
          /\ returned = PyNone
          /\ StartsWith(exc, "Stage '") =>
                /\ Last(emitted).kind = "StageCompleted"
                /\ Last(emitted).data.node_id = Last(executed).node_id
                /\ Last(emitted).data.outcome = FAIL
                /\ exc = "Stage '" \o Last(executed).node_id \o "' failed: "
                         \o Last(executed).outcome.failure_reason

\* A run that raised for a FAIL without a route, after two stages, and whose
\* task is done.
C34_Witness ==
    /\ pc = "done"
    /\ StartsWith(exc, "Stage '")
    /\ Len(executed) >= 2
    /\ Last(emitted).kind = "StageCompleted"

\* The Outcome of the most recent execution of the node nid in the run.
LatestOutcome(nid) ==
    LET at == {i \in DOMAIN executed : executed[i].node_id = nid}
    IN executed[CHOOSE i \in at : \A j \in at : j <= i].outcome

\* C38: a goal gate fails the run only for a node that was executed in the
\* run, carries a truthy goal_gate and whose most recent Outcome is neither
\* SUCCESS nor PARTIAL_SUCCESS: a gated node never visited, or one that
\* failed earlier and succeeded on its last visit, does not fail it.
C38_GateByLatestExecution ==
    \A i \in DOMAIN emitted :
        emitted[i].kind = "PipelineFailed" =>
            /\ \E k \in DOMAIN executed :
                  executed[k].node_id = emitted[i].data.node_id
            /\ Truthy(AttrGet(get_node(graph, emitted[i].data.node_id),
                              "goal_gate"))
            /\ LatestOutcome(emitted[i].data.node_id).status
                  \notin {SUCCESS, PARTIAL_SUCCESS}

\* The gated node critical was executed twice, RETRY and then SUCCESS, the
\* gated node other never, and the run ended with PipelineCompleted.
C38_Witness ==
    /\ graph = GGoalGate
    /\ Completed
    /\ Len(executed) = 3
    /\ executed[2].node_id = "critical"
    /\ executed[2].outcome.status = RETRY
    /\ executed[3].node_id = "critical"
    /\ executed[3].outcome.status = SUCCESS
    /\ \A k \in DOMAIN executed : executed[k].node_id # "other"

\* C39: when PipelineCompleted was emitted, the most recent Outcome of every
\* executed node that carries a truthy goal_gate is SUCCESS or
\* PARTIAL_SUCCESS, wherever the traversal stopped.
C39_CompletedMeansGatesMet ==
    PipelineEvents # {} /\ Completed =>
        \A k \in DOMAIN executed :
            Truthy(AttrGet(get_node(graph, executed[k].node_id), "goal_gate")) =>
                LatestOutcome(executed[k].node_id).status
                    \in {SUCCESS, PARTIAL_SUCCESS}

\* The ids reached from the ids in S along at most n edges of the graph.
RECURSIVE ReachedWithin(_, _)
ReachedWithin(S, n) ==
    IF n = 0 THEN S
    ELSE ReachedWithin(
             S \cup {graph.edges[k].to_node :
                        k \in {j \in DOMAIN graph.edges :
                                  graph.edges[j].from_node \in S}},
             n - 1)

\* The ids one edge away from the id nid.
Successors(nid) ==
    {graph.edges[k].to_node :
        k \in {j \in DOMAIN graph.edges : graph.edges[j].from_node = nid}}

\* No cycle of the graph is reachable from its entry node.
AcyclicFromEntry ==
    \A nid \in ReachedWithin({find_start_node(graph)}, Len(graph.edges)) :
        nid \notin ReachedWithin(Successors(nid), Len(graph.edges))

\* The place of a step inside one turn of the loop of PipelineEngine.run and
\* in what run_task does after it, counted down to the end of run_task.
PhaseRank ==
    CASE pc = "submitted" -> 30
      [] pc = "run" -> 29
      [] pc = "on_event" /\ retpc = "route" -> 24
      [] pc = "on_event_progress" /\ retpc = "route" -> 23
      [] pc = "on_event_store" /\ retpc = "route" -> 22
      [] pc = "route" -> 21
      [] pc = "loop" -> 20
      [] pc = "on_event" /\ retpc = "execute" -> 19
      [] pc = "on_event_progress" /\ retpc = "execute" -> 18
      [] pc = "on_event_store" /\ retpc = "execute" -> 17
      [] pc = "execute" -> 16
      [] pc = "break" -> 15
      [] pc = "on_event" /\ retpc = "return" -> 14
      [] pc = "on_event_progress" /\ retpc = "return" -> 13
      [] pc = "on_event_store" /\ retpc = "return" -> 12
      [] pc = "return" -> 11
      [] pc = "result_stored" -> 10
      [] pc = "completed" -> 9
      [] pc = "except" -> 8
      [] pc = "failed" -> 7
      [] pc = "failed_result" -> 6
      [] OTHER -> 0

\* A natural number that bounds the steps a run has left: the nodes not yet
\* executed weigh more than the place inside a turn of the loop.
RunVariant == (Len(graph.nodes) - Len(executed)) * 100 + PhaseRank

\* C37: on a graph with no cycle reachable from the entry node, a run
\* executes no node twice and at most as many stages as the graph has nodes,
\* and it ends, by returning or by raising: the loop is never held at its
\* top, and every step of the run brings RunVariant, which is never
\* negative, strictly down.
C37_AcyclicRunEnds ==
    /\ [](AcyclicFromEntry =>
             /\ \A i, j \in DOMAIN executed :
                   executed[i].node_id = executed[j].node_id => i = j
             /\ Len(executed) <= Len(graph.nodes)
             /\ RunVariant >= 0
             /\ (pc = "loop" => ENABLED <<LoopTop>>_vars))
    /\ [][AcyclicFromEntry => RunVariant' < RunVariant]_vars

\* A run on a graph without a cycle that executed four nodes, each once, and
\* returned.
C37_Witness ==
    /\ AcyclicFromEntry
    /\ graph = GTask
    /\ Len(executed) = 4
    /\ returned # PyNone
    /\ pc = "done"

\* C35: a task whose status is not running has a result, in every state the
\* worker and the observer can reach together; and an observer that read a
\* status other than running read a result with it, so that a stream that
\* has ended ends with the result event.
C35_FinishedHasResult ==
    /\ task_store[TaskId].status # "running"
          => task_store[TaskId].result # PyNone
    /\ obs.pc = "done"
          => /\ obs.forwarded # <<>>
             /\ obs.forwarded[Len(obs.forwarded)].kind = "result"

\* run_task has ended, by its return or by an exception that left it.
RunTaskEnded == pc \in {"done", "escaped"}

\* C36: a task does not stay running: once run_task has ended, by its return
\* or by a failure before the traversal began, the task is completed or
\* failed.
C36_TaskLeavesRunning ==
    RunTaskEnded => task_store[TaskId].status \in {"completed", "failed"}

(***************************************************************************)
(* Several tasks on the worker pool: api_convert registers each, and a     *)
(* worker thread runs run_task for each, beside the others                 *)
(***************************************************************************)

\* The most tasks that run side by side.
MaxRuns == 2

\* The most calls of on_event and of handlers that one engine.run makes.
MaxEngineSteps == 1

\* The ids of the tasks that run.
RunIds == {TaskIds[i] : i \in 1 .. MaxRuns}

\* The file_id of the request that started a task: every request names a
\* file of its own.
FileOf(t) == "file-" \o t

\* The document _tool_publish_to_feishu makes for a run: Feishu gives every
\* document an id of its own, here the file_id the run's Context holds.
DocumentId(values) == "doc-" \o CtxGetString(values, "file_id")

\* The context_updates of the Outcome _tool_publish_to_feishu returns.
PublishUpdates(values) ==
    ( "feishu_doc_url" :> PyStr("https://x.feishu.cn/docx/" \o DocumentId(values))
      @@ "feishu_document_id" :> PyStr(DocumentId(values)) )

\* LocalOf that refers to the local list of the first task, whichever task
\* asks.
LocalOfFirst(t) == [ref |-> "local", task |-> TaskIds[1]]

\* The local list `events` of the run_task of task t as the "events" slot of
\* a task refers to it.
LocalOf(t) == [ref |-> "local", task |-> t]

\* No task is registered, no run_task has begun: the task table, a function
\* from the ids registered to their entries, is empty.  by, on an item of an event
\* list, is the run whose code made the item; it is no key of the dict.
InitTasks ==
    /\ graph = GStraight
    /\ has_backend = FALSE
    /\ pc = "idle"
    /\ ctx = <<>>
    /\ current_id = ""
    /\ node_outcomes = <<>>
    /\ last_outcome = PyNone
    /\ outcome = PyNone
    /\ next_edge = PyNone
    /\ events = <<>>
    /\ task_store = <<>>
    /\ ev = PyNone
    /\ retpc = ""
    /\ exc = ""
    /\ returned = PyNone
    /\ emitted = <<>>
    /\ executed = <<>>
    /\ sel = PyNone
    /\ obs = PyNone
    /\ call = [op |-> "tasks",
               store |-> <<>>,
               run |-> [t \in RunIds |->
                           [pc |-> "new", events |-> <<>>, values |-> <<>>,
                            ev |-> PyNone, steps |-> 0, outcome |-> PyNone,
                            exc |-> ""]]]

\* api_convert: the task is registered and run_task is submitted to the pool.
TaskSubmit(t) ==
    /\ call.run[t].pc = "new"
    /\ call' = [call EXCEPT
                   !.store = (t :> [status |-> "running",
                                    events |-> OwnList(<<>>),
                                    result |-> PyNone]) @@ @,
                   !.run[t].pc = "submitted"]
    /\ UNCHANGED <<engineVars, sel, obs>>

\* run_task up to the call of engine.run: the task is registered again with
\* the local list as its events, and a new Context is seeded from the inputs.
TaskBegin(t) ==
    /\ call.run[t].pc = "submitted"
    /\ call' = [call EXCEPT
                   !.store = (t :> [status |-> "running",
                                    events |-> LocalOf(t),
                                    result |-> PyNone]) @@ @,
                   !.run[t].values =
                       ( "file_id" :> PyStr(FileOf(t)) @@ "mode" :> PyStr("lightweight")
                         @@ "target_lang" :> PyStr("keep") @@ "filters" :> PyStr("[]")
                         @@ "doc_title" :> PyStr("README")
                         @@ "feishu_app_id" :> PyStr("")
                         @@ "feishu_app_secret" :> PyStr("") ),
                   !.run[t].pc = "engine"]
    /\ UNCHANGED <<engineVars, sel, obs>>

\* engine.run(graph, context=ctx, ...) of task t, by what it does to what it
\* was given: it calls on_event, it has a handler update the Context, it
\* returns an Outcome, or it raises.
TaskEngine(t) ==
    /\ call.run[t].pc = "engine"
    /\ \/ /\ call.run[t].steps < MaxEngineSteps
          /\ call' = [call EXCEPT
                            !.run[t].ev = [kind |-> "StageStarted",
                                           data |-> [node_id |-> "fetch_input"],
                                           by |-> t],
                            !.run[t].steps = @ + 1,
                            !.run[t].pc = "on_event"]
       \/ /\ call.run[t].steps < MaxEngineSteps
          /\ call' = [call EXCEPT
                         !.run[t].values =
                             apply_updates(@, PublishUpdates(call.run[t].values)),
                         !.run[t].steps = @ + 1]
       \/ call' = [call EXCEPT !.run[t].outcome = Outcome(SUCCESS),
                               !.run[t].pc = "return"]
       \/ call' = [call EXCEPT
                      !.run[t].exc = "Stage 'fetch_input' failed: Upload not found: "
                                     \o CtxGetString(call.run[t].values, "file_id"),
                      !.run[t].pc = "except"]
    /\ UNCHANGED <<engineVars, sel, obs>>

\* on_event of task t, statement by statement: the event is appended to the
\* local list, then the progress event of a node id in step_names, then a
\* copy of the list is stored under the task's id.
TaskOnEvent(t) ==
    /\ LET w == call.run[t]
           node_id == w.ev.data.node_id
       IN \/ /\ w.pc = "on_event"
             /\ call' = [call EXCEPT !.run[t].events = Append(@, w.ev),
                                     !.run[t].pc = "on_event_progress"]
          \/ /\ w.pc = "on_event_progress"
             /\ call' = [call EXCEPT
                            !.run[t].events =
                                IF node_id \in DOMAIN step_names
                                THEN Append(@, [kind |-> "progress",
                                                data |-> [step |-> step_names[node_id],
                                                          progress |->
                                                              step_progress[step_names[node_id]]],
                                                by |-> t])
                                ELSE @,
                            !.run[t].pc = "on_event_store"]
          \/ /\ w.pc = "on_event_store"
             /\ call' = [call EXCEPT
                            !.store =
                                IF t \in DOMAIN call.store
                                THEN [@ EXCEPT ![t].events = OwnList(w.events)]
                                ELSE @,
                            !.run[t].pc = "engine"]
    /\ UNCHANGED <<engineVars, sel, obs>>

\* run_task of task t after engine.run returned, statement by statement: the
\* result, the status, the final progress event.
TaskReturn(t) ==
    /\ LET w == call.run[t]
           data == call.store[t]
       IN \/ /\ w.pc = "return"
             /\ call' = [call EXCEPT
                            !.store[t].result = TaskResult(w.values, w.outcome),
                            !.run[t].pc = "result_stored"]
          \/ /\ w.pc = "result_stored"
             /\ call' = [call EXCEPT !.store[t].status = "completed",
                                     !.run[t].pc = "completed"]
          \/ /\ w.pc = "completed"
             /\ call' = [call EXCEPT
                            !.run[t].events =
                                Append(@, [kind |-> "progress",
                                           data |-> [step |-> "publishing",
                                                     progress |-> 100,
                                                     result |-> data.result],
                                           by |-> t]),
                            !.run[t].pc = "done"]
    /\ UNCHANGED <<engineVars, sel, obs>>

\* run_task of task t in its except clause, statement by statement: the
\* status, the result, the error event.
TaskExcept(t) ==
    /\ LET w == call.run[t]
       IN \/ /\ w.pc = "except"
             /\ call' = [call EXCEPT !.store[t].status = "failed",
                                     !.run[t].pc = "failed"]
          \/ /\ w.pc = "failed"
             /\ call' = [call EXCEPT
                            !.store[t].result = [status |-> "failed",
                                                 failure_reason |-> w.exc],
                            !.run[t].pc = "failed_result"]
          \/ /\ w.pc = "failed_result"
             /\ call' = [call EXCEPT
                            !.run[t].events =
                                Append(@, [kind |-> "error",
                                           data |-> [message |-> w.exc],
                                           by |-> t]),
                            !.run[t].pc = "done"]
    /\ UNCHANGED <<engineVars, sel, obs>>

NextTasks ==
    \/ \E t \in RunIds : TaskSubmit(t)
    \/ \E t \in RunIds : TaskBegin(t)
    \/ \E t \in RunIds : TaskEngine(t)
    \/ \E t \in RunIds : TaskOnEvent(t)
    \/ \E t \in RunIds : TaskReturn(t)
    \/ \E t \in RunIds : TaskExcept(t)

SpecTasks == InitTasks /\ [][NextTasks]_vars

\* The items of the list the "events" slot of a task's entry refers to.
EntryEvents(entry) ==
    IF entry.events.ref = "local" THEN call.run[entry.events.task].events
    ELSE entry.events.items

\* What task t may hold under the keys that its inputs and its tools decide.
OwnValues(t) ==
    ( "file_id" :> PyStr(FileOf(t))
      @@ "feishu_document_id" :> PyStr("doc-" \o FileOf(t))
      @@ "feishu_doc_url" :> PyStr("https://x.feishu.cn/docx/doc-" \o FileOf(t)) )

\* C31: tasks that run side by side are isolated: under every interleaving
\* the Context of a run holds the values of its own task only, the local
\* list of a run and the event list stored for its task hold only events
\* that run made, and the result stored for a task comes from its own
\* Context or its own failure.
C31_TasksIsolated ==
    \A t \in RunIds :
        /\ \A k \in DOMAIN call.run[t].values \cap DOMAIN OwnValues(t) :
              call.run[t].values[k] = OwnValues(t)[k]
        /\ \A i \in DOMAIN call.run[t].events : call.run[t].events[i].by = t
        /\ t \in DOMAIN call.store =>
              /\ \A i \in DOMAIN EntryEvents(call.store[t]) :
                    EntryEvents(call.store[t])[i].by = t
              /\ call.store[t].status = "completed" =>
                    /\ call.store[t].result.feishu_doc_url
                          \in {"", OwnValues(t)["feishu_doc_url"].v}
                    /\ call.store[t].result.feishu_document_id
                          \in {"", OwnValues(t)["feishu_document_id"].v}
              /\ (call.store[t].status = "failed"
                     /\ call.store[t].result # PyNone) =>
                    call.store[t].result.failure_reason
                        = "Stage 'fetch_input' failed: Upload not found: " \o FileOf(t)

\* Two tasks ran side by side to their ends: the first emitted an event,
\* which its list holds with the progress event, and failed; the second
\* published and completed with the url of its own document.
C31_Witness ==
    /\ call.run["t1"].pc = "done"
    /\ call.run["t2"].pc = "done"
    /\ Len(EntryEvents(call.store["t1"])) = 2
    /\ call.store["t1"].status = "failed"
    /\ call.store["t2"].status = "completed"
    /\ call.store["t2"].result.feishu_doc_url
          = "https://x.feishu.cn/docx/doc-file-t2"

====
